---- MODULE Spec2Model ----
(***************************************************************************)
(* Custom valuations and loan tracking of paisa.                           *)
(*                                                                         *)
(* The repository holds two versions of the loan service: the file         *)
(* src/unnamed/part_003 (explicit close detection, closed loans reported)  *)
(* and the first section of src/internal/service/loan.go (NoteContains     *)
(* filter, loans with a non-positive balance omitted).  Both are modelled: *)
(* GetLoans / buildLoan are part_003's, GetLoansAlt / buildLoanAlt are     *)
(* loan.go's.  The valuation engine (formula compilation and evaluation,   *)
(* the note parser, the account matcher) is the third section of loan.go.  *)
(*                                                                         *)
(* Strings are sequences of one-character strings.  Times are whole hours  *)
(* since midnight of day 0; posting dates are midnights.  float64 and      *)
(* decimal values are exact extended rationals n/d (d = 0: +Inf, -Inf,     *)
(* NaN).                                                                   *)
(***************************************************************************)
EXTENDS Integers, Sequences, FiniteSets, TLC

VARIABLES
    valuations,  \* config.GetCustomValuations(): the immutable rule snapshot
    postings,    \* the postings stored in the database
    today,       \* the current day (the wall clock, in days)
    response,    \* the response of the loan request being served, or NoResponse
    call,        \* the last call of a function of the valuation engine
    procs,       \* the goroutines calling the valuation engine: where each is
    evaluated    \* the latest results the valuation engine returned

vars == <<valuations, postings, today, response, call, procs, evaluated>>

(***************************************************************************)
(* Strings                                                                 *)
(***************************************************************************)

\* The characters in byte order (the order Go compares strings in).
Ascii ==
    <<"\t", " ", "*", ".", "0", "1", "2", "3", "4", "5", "6", "7", "8", "9", ":",
      "A", "B", "C", "D", "E", "F", "G", "H", "I", "J", "K", "L", "M",
      "N", "O", "P", "Q", "R", "S", "T", "U", "V", "W", "X", "Y", "Z",
      "a", "b", "c", "d", "e", "f", "g", "h", "i", "j", "k", "l", "m",
      "n", "o", "p", "q", "r", "s", "t", "u", "v", "w", "x", "y", "z">>

CharRank(c) == CHOOSE i \in 1..Len(Ascii) : Ascii[i] = c

UpperFirst == CharRank("A")
LowerFirst == CharRank("a")

\* strings.ToLower on one character
LowerTable ==
    [r \in 1..Len(Ascii) |->
        IF r >= UpperFirst /\ r < LowerFirst THEN Ascii[r + (LowerFirst - UpperFirst)] ELSE Ascii[r]]

LowerMap == [c \in {Ascii[r] : r \in 1..Len(Ascii)} |-> LowerTable[CharRank(c)]]

LowerChar(c) == LowerMap[c]

\* strings.ToLower
ToLower(s) == [i \in 1..Len(s) |-> LowerChar(s[i])]

\* s[i:i+len(sub)] == sub, with i a 1-based position
OccursAt(s, sub, i) ==
    /\ i >= 1
    /\ i + Len(sub) - 1 <= Len(s)
    /\ \A k \in 1..Len(sub) : s[i + k - 1] = sub[k]

\* strings.Contains
Contains(s, sub) == \E i \in 1..(Len(s) + 1) : OccursAt(s, sub, i)

\* strings.Index, 1-based; 0 when sub does not occur
Index(s, sub) ==
    IF Contains(s, sub)
    THEN CHOOSE i \in 1..(Len(s) + 1) :
            /\ OccursAt(s, sub, i)
            /\ \A j \in 1..(i - 1) : ~OccursAt(s, sub, j)
    ELSE 0

\* strings.HasPrefix
HasPrefix(s, p) == OccursAt(s, p, 1)

\* s < t in byte order
RECURSIVE StrLess(_, _)
StrLess(s, t) ==
    IF t = <<>> THEN FALSE
    ELSE IF s = <<>> THEN TRUE
    ELSE IF s[1] # t[1] THEN CharRank(s[1]) < CharRank(t[1])
    ELSE StrLess(Tail(s), Tail(t))

\* strings.Split(s, sep) for a non-empty sep: the pieces between the
\* non-overlapping occurrences of sep, found left to right
RECURSIVE Split(_, _)
Split(s, sep) ==
    LET i == Index(s, sep)
    IN  IF i = 0 THEN <<s>>
        ELSE <<SubSeq(s, 1, i - 1)>> \o Split(SubSeq(s, i + Len(sep), Len(s)), sep)

\* strings.ReplaceAll(s, old, new) for a non-empty old
RECURSIVE ReplaceAll(_, _, _)
ReplaceAll(s, old, new) ==
    LET i == Index(s, old)
    IN  IF i = 0 THEN s
        ELSE SubSeq(s, 1, i - 1) \o new \o ReplaceAll(SubSeq(s, i + Len(old), Len(s)), old, new)

(***************************************************************************)
(* Account pattern matcher                                                 *)
(***************************************************************************)

\* The characters regexp.QuoteMeta escapes, among the characters of Ascii
RegexMeta == {"*", "."}

\* regexp.QuoteMeta
RECURSIVE QuoteMeta(_)
QuoteMeta(s) ==
    IF s = <<>> THEN <<>>
    ELSE (IF s[1] \in RegexMeta THEN <<"\\", s[1]>> ELSE <<s[1]>>) \o QuoteMeta(Tail(s))

\* The expression built from the pattern as written, its characters unescaped
AccountRegex_Unquoted(pattern) ==
    ReplaceAll(<<"^">> \o pattern \o <<"$">>, <<"\\", "*">>, <<".", "*">>)

\* The regular expression matchAccountPattern builds
AccountRegex(pattern) ==
    ReplaceAll(<<"^">> \o QuoteMeta(pattern) \o <<"$">>, <<"\\", "*">>, <<".", "*">>)

\* regexp.MatchString on the expressions AccountRegex builds: ^ and $ anchor,
\* \c is the character c, .* is any run of characters, a single . is any one
\* character, any other character is itself.  anchored: the match must start
\* at the head of text.
RECURSIVE RegexMatch(_, _, _)
RegexMatch(re, text, anchored) ==
    IF re = <<>> THEN TRUE
    ELSE IF re[1] = "^" THEN anchored /\ RegexMatch(Tail(re), text, TRUE)
    ELSE IF re[1] = "$" THEN text = <<>> /\ RegexMatch(Tail(re), text, TRUE)
    ELSE IF re[1] = "\\" THEN
        /\ Len(re) >= 2
        /\ text # <<>>
        /\ text[1] = re[2]
        /\ RegexMatch(SubSeq(re, 3, Len(re)), Tail(text), TRUE)
    ELSE IF re[1] = "." /\ Len(re) >= 2 /\ re[2] = "*" THEN
        \E k \in 0..Len(text) :
            RegexMatch(SubSeq(re, 3, Len(re)), SubSeq(text, k + 1, Len(text)), TRUE)
    ELSE IF re[1] = "." THEN
        /\ text # <<>>
        /\ RegexMatch(Tail(re), Tail(text), TRUE)
    ELSE
        /\ text # <<>>
        /\ text[1] = re[1]
        /\ RegexMatch(Tail(re), Tail(text), TRUE)

\* The expression without its ^: it matches anywhere in the account
matchAccountPattern_Unanchored(account, pattern) ==
    \E k \in 0..Len(account) :
        RegexMatch(Tail(AccountRegex(pattern)), SubSeq(account, k + 1, Len(account)), TRUE)

matchAccountPattern(account, pattern) ==
    RegexMatch(AccountRegex(pattern), account, TRUE)

(***************************************************************************)
(* Numbers: float64 and decimal.Decimal as extended rationals              *)
(***************************************************************************)

RECURSIVE GCD(_, _)
GCD(a, b) == IF b = 0 THEN a ELSE GCD(b, a % b)

Abs(x) == IF x < 0 THEN -x ELSE x
Sign(x) == IF x < 0 THEN -1 ELSE IF x > 0 THEN 1 ELSE 0

\* n/d in lowest terms with d >= 0; d = 0 is +Inf (n = 1), -Inf (n = -1), NaN (n = 0)
Rat(n, d) ==
    IF d = 0 THEN [n |-> Sign(n), d |-> 0]
    ELSE LET g == GCD(Abs(n), Abs(d))
         IN  [n |-> (Sign(d) * n) \div g, d |-> Abs(d) \div g]

Num(k) == Rat(k, 1)
PosInf == Rat(1, 0)
NegInf == Rat(-1, 0)
NaN == Rat(0, 0)

IsNaN(a) == a.d = 0 /\ a.n = 0
IsInf(a) == a.d = 0 /\ a.n # 0
IsFinite(a) == a.d # 0

\* IEEE-754 arithmetic, exact on the finite values
RAdd(a, b) ==
    IF IsInf(a) /\ IsInf(b) THEN (IF a.n = b.n THEN a ELSE NaN)
    ELSE Rat(a.n * b.d + b.n * a.d, a.d * b.d)
RNeg(a) == [n |-> -a.n, d |-> a.d]
RSub(a, b) == RAdd(a, RNeg(b))
RMul(a, b) == Rat(a.n * b.n, a.d * b.d)
RDiv(a, b) == Rat(a.n * b.d, a.d * b.n)

RLess(a, b) ==
    IF IsNaN(a) \/ IsNaN(b) THEN FALSE
    ELSE IF a.d = 0 /\ b.d = 0 THEN a.n < b.n
    ELSE a.n * b.d < b.n * a.d
RLeq(a, b) == ~IsNaN(a) /\ ~IsNaN(b) /\ ~RLess(b, a)
\* math.Min and math.Max: an infinity of the function's own sign wins over
\* NaN, NaN over everything else
RMin(a, b) ==
    IF a = Rat(-1, 0) \/ b = Rat(-1, 0) THEN Rat(-1, 0)
    ELSE IF IsNaN(a) \/ IsNaN(b) THEN NaN
    ELSE IF RLess(b, a) THEN b ELSE a
\* A maximum that returns its first argument
RMax_Left(a, b) == a
RMax(a, b) ==
    IF a = Rat(1, 0) \/ b = Rat(1, 0) THEN Rat(1, 0)
    ELSE IF IsNaN(a) \/ IsNaN(b) THEN NaN
    ELSE IF RLess(a, b) THEN b ELSE a

\* A division that rounds down
TruncDiv_Floor(a, b) == a \div b

\* Division of integers truncated toward zero: Go's int(x / y)
TruncDiv(a, b) == IF a >= 0 THEN a \div b ELSE -((-a) \div b)

\* Go's int(f) for a finite f
RTrunc(a) == TruncDiv(a.n, a.d)
\* math.Floor, math.Ceil, math.Round (half away from zero) on the finite values
RFloor(a) == IF IsFinite(a) THEN Num(a.n \div a.d) ELSE a
RCeil(a) == IF IsFinite(a) THEN Num(-((-a.n) \div a.d)) ELSE a
RRound(a) ==
    IF IsFinite(a)
    THEN Num(Sign(a.n) * ((2 * Abs(a.n) + a.d) \div (2 * a.d)))
    ELSE a

(***************************************************************************)
(* Values of the expression language                                       *)
(***************************************************************************)

\* A value with its dynamic type: t is its Go type, r its number, s its
\* characters (a string) or its elements (an array)
VFloat(x) == [t |-> "float64", r |-> x, s |-> <<>>]
VInt(k) == [t |-> "int", r |-> Num(k), s |-> <<>>]
VStr(str) == [t |-> "string", r |-> Num(0), s |-> str]
VBool(b) == [t |-> "bool", r |-> Num(IF b THEN 1 ELSE 0), s |-> <<>>]
VTime(h) == [t |-> "time.Time", r |-> Num(h), s |-> <<>>]
VArr(elems) == [t |-> "[]interface {}", r |-> Num(0), s |-> elems]
VNil == [t |-> "nil", r |-> Num(0), s |-> <<>>]

\* The outcome of a call that may panic or return an error
Ok(v) == [ok |-> TRUE, v |-> v]
Fail == [ok |-> FALSE, v |-> VNil]

\* toFloat64: the numeric types are converted, anything else becomes 0
toFloat64(v) ==
    IF v.t \in {"float64", "float32", "int", "int64", "int32"} THEN v.r ELSE Num(0)

(***************************************************************************)
(* Note mini-parser                                                        *)
(***************************************************************************)

Digits == <<"0", "1", "2", "3", "4", "5", "6", "7", "8", "9">>
IsDigit(c) == \E i \in 1..Len(Digits) : Digits[i] = c
DigitVal(c) == (CHOOSE i \in 1..Len(Digits) : Digits[i] = c) - 1

RECURSIVE Pow10(_)
Pow10(k) == IF k = 0 THEN 1 ELSE 10 * Pow10(k - 1)

\* The number a run of digits writes
RECURSIVE DigitsVal(_)
DigitsVal(s) == IF s = <<>> THEN 0 ELSE 10 * DigitsVal(SubSeq(s, 1, Len(s) - 1)) + DigitVal(s[Len(s)])

AllDigits(s) == \A i \in 1..Len(s) : IsDigit(s[i])

\* strconv.ParseFloat(s, 64) on an unsigned decimal: digits with at most one
\* point and at least one digit, or the words inf, infinity and nan in any
\* case.  Any other text of the characters of Ascii with no sign and no
\* exponent is a syntax error.
ParseFloat(s) ==
    LET dot == Index(s, <<".">>)
        ip == IF dot = 0 THEN s ELSE SubSeq(s, 1, dot - 1)
        fp == IF dot = 0 THEN <<>> ELSE SubSeq(s, dot + 1, Len(s))
    IN  IF ToLower(s) \in {<<"i", "n", "f">>, <<"i", "n", "f", "i", "n", "i", "t", "y">>}
            THEN Ok(PosInf)
        ELSE IF ToLower(s) = <<"n", "a", "n">> THEN Ok(NaN)
        ELSE IF AllDigits(ip) /\ AllDigits(fp) /\ Len(ip) + Len(fp) > 0
            THEN Ok(Rat(DigitsVal(ip) * Pow10(Len(fp)) + DigitsVal(fp), Pow10(Len(fp))))
        ELSE Fail

\* parseNoteString extracts a string value from note after a given prefix
parseNoteString(note, prefix) ==
    IF ~Contains(note, prefix) THEN <<>>
    ELSE LET parts == Split(note, prefix)
         IN  IF Len(parts) < 2 THEN <<>>
             ELSE Split(parts[2], <<" ">>)[1]

\* parseNoteFloat extracts a float value from note after a given prefix
parseNoteFloat(note, prefix) ==
    IF ~Contains(note, prefix) THEN Num(0)
    ELSE LET parts == Split(note, prefix)
         IN  IF Len(parts) < 2 THEN Num(0)
             ELSE LET value == ParseFloat(Split(parts[2], <<" ">>)[1])
                  IN  IF ~value.ok THEN Num(0) ELSE value.v

(***************************************************************************)
(* Function library (exprFunctions)                                        *)
(***************************************************************************)

\* A number outside the exact numbers of the model (an irrational power or
\* root): evaluating it stops the check instead of yielding a wrong value.
Unrepresentable == CHOOSE x \in {} : TRUE

RECURSIVE IntPow(_, _)
IntPow(b, k) == IF k = 0 THEN 1 ELSE b * IntPow(b, k - 1)

\* math.Pow on the finite bases with a whole exponent
RPow(b, e) ==
    IF IsNaN(b) \/ IsNaN(e) THEN NaN
    ELSE IF IsFinite(e) /\ e.n = 0 THEN Num(1)
    ELSE IF IsFinite(b) /\ IsFinite(e) /\ e.d = 1
        THEN (IF e.n > 0
              THEN Rat(IntPow(b.n, e.n), IntPow(b.d, e.n))
              ELSE Rat(IntPow(b.d, -e.n), IntPow(b.n, -e.n)))
    ELSE Unrepresentable

\* math.Sqrt on the squares
RSqrt(a) ==
    IF IsNaN(a) \/ RLess(a, Num(0)) THEN NaN
    ELSE IF IsInf(a) THEN a
    ELSE Rat(CHOOSE k \in 0..a.n : k * k = a.n, CHOOSE k \in 1..a.d : k * k = a.d)

\* The declared signature of each registered function
FuncSigs ==
    [parse_note_float  |-> [params |-> <<"string", "string">>, ret |-> "float64"],
     parse_note_string |-> [params |-> <<"string", "string">>, ret |-> "string"],
     note_contains     |-> [params |-> <<"string", "string">>, ret |-> "bool"],
     simple_interest   |-> [params |-> <<"float64", "float64", "float64">>, ret |-> "float64"],
     compound_interest |-> [params |-> <<"float64", "float64", "float64", "float64">>, ret |-> "float64"],
     monthly_interest  |-> [params |-> <<"float64", "float64", "float64">>, ret |-> "float64"],
     daily_interest    |-> [params |-> <<"float64", "float64", "float64">>, ret |-> "float64"],
     min               |-> [params |-> <<"float64", "float64">>, ret |-> "float64"],
     max               |-> [params |-> <<"float64", "float64">>, ret |-> "float64"],
     round             |-> [params |-> <<"float64">>, ret |-> "float64"],
     floor             |-> [params |-> <<"float64">>, ret |-> "float64"],
     ceil              |-> [params |-> <<"float64">>, ret |-> "float64"],
     abs               |-> [params |-> <<"float64">>, ret |-> "float64"],
     pow               |-> [params |-> <<"float64", "float64">>, ret |-> "float64"],
     sqrt              |-> [params |-> <<"float64">>, ret |-> "float64"],
     if_else           |-> [params |-> <<"bool", "float64", "float64">>, ret |-> "float64"],
     clamp             |-> [params |-> <<"float64", "float64", "float64">>, ret |-> "float64"]]

FuncNames == DOMAIN FuncSigs

\* compound_interest's body
compound_interest(principal, annualRate, days, n) ==
    LET compoundsPerYear == IF n = Num(0) THEN Num(12) ELSE n
        years == RDiv(days, Num(365))
    IN  RMul(principal,
             RPow(RAdd(Num(1), RDiv(RDiv(annualRate, Num(100)), compoundsPerYear)),
                  RMul(compoundsPerYear, years)))

\* The body of the registered function fn on the arguments params, as many
\* as fn declares: a failed type assertion x.(string) or x.(bool) panics
exprFunctions(fn, params) ==
    LET f(i) == toFloat64(params[i])
        isStr(i) == params[i].t = "string"
    IN  CASE fn = "parse_note_float" ->
                IF isStr(1) /\ isStr(2)
                THEN Ok(VFloat(parseNoteFloat(params[1].s, params[2].s))) ELSE Fail
          [] fn = "parse_note_string" ->
                IF isStr(1) /\ isStr(2)
                THEN Ok(VStr(parseNoteString(params[1].s, params[2].s))) ELSE Fail
          [] fn = "note_contains" ->
                IF isStr(1) /\ isStr(2)
                THEN Ok(VBool(Contains(params[1].s, params[2].s))) ELSE Fail
          [] fn = "simple_interest" ->
                Ok(VFloat(RMul(RMul(f(1), RDiv(f(2), Num(100))), RDiv(f(3), Num(365)))))
          [] fn = "compound_interest" ->
                Ok(VFloat(compound_interest(f(1), f(2), f(3), f(4))))
          [] fn = "monthly_interest" ->
                Ok(VFloat(RMul(RMul(f(1), RDiv(f(2), Num(100))), RDiv(f(3), Num(30)))))
          [] fn = "daily_interest" ->
                Ok(VFloat(RMul(RMul(f(1), RDiv(f(2), Num(100))), f(3))))
          [] fn = "min" -> Ok(VFloat(RMin(f(1), f(2))))
          [] fn = "max" -> Ok(VFloat(RMax(f(1), f(2))))
          [] fn = "round" -> Ok(VFloat(RRound(f(1))))
          [] fn = "floor" -> Ok(VFloat(RFloor(f(1))))
          [] fn = "ceil" -> Ok(VFloat(RCeil(f(1))))
          [] fn = "abs" -> Ok(VFloat(IF IsNaN(f(1)) THEN NaN ELSE Rat(Abs(f(1).n), f(1).d)))
          [] fn = "pow" -> Ok(VFloat(RPow(f(1), f(2))))
          [] fn = "sqrt" -> Ok(VFloat(RSqrt(f(1))))
          [] fn = "if_else" ->
                IF params[1].t = "bool"
                THEN Ok(VFloat(IF params[1].r = Num(1) THEN f(2) ELSE f(3))) ELSE Fail
          [] fn = "clamp" -> Ok(VFloat(RMax(f(2), RMin(f(3), f(1)))))

(***************************************************************************)
(* Expression compiler and evaluator (expr.Compile, expr.Run)              *)
(***************************************************************************)

\* Syntax trees: k is the kind of node, x its literal value, name or
\* operator, a its operands
Lit(v) == [k |-> "lit", x |-> v, a |-> <<>>]
Var(name) == [k |-> "var", x |-> name, a |-> <<>>]
Bin(op, l, r) == [k |-> "bin", x |-> op, a |-> <<l, r>>]
Call(fn, args) == [k |-> "call", x |-> fn, a |-> args]
Arr(elems) == [k |-> "array", x |-> "[]", a |-> elems]
Idx(base, i) == [k |-> "index", x |-> "[]", a |-> <<base, i>>]

S_Int == <<"I", "n", "t", ":">>
S_Per == <<"P", "e", "r", ":">>
S_Target == <<"T", "a", "r", "g", "e", "t", ":">>
S_x == <<"x">>

\* The formulas of the model, by their source text
FormulaSources ==
    {"amount", "100", "amount * 1.1", "amount + amount * days_held",
     "amount + simple_interest(amount, 12, days_held)",
     "if_else(days_held > 1, amount, 0)",
     "amount + (amount * parse_note_float(note, \"Int:\") / 100 / 365 * days_held)",
     "amount +", "invalid_function(amount)", "unknown_var * 2",
     "simple_interest(amount, 12)", "simple_interest(note, 12, days_held)",
     "\"string result\"", "parse_note_string(note, \"Per:\")", "amount > 0",
     "amount / 0", "(amount - amount) / 0",
     "simple_interest([amount, note][1], 100, 365)",
     "note_contains([note, amount][1], \"x\")",
     "compound_interest(amount, 1200, 365, 12)",
     "compound_interest(amount, 1200, 365, 0)",
     "compound_interest(amount, 1200, 365)"}

\* The parser on the formulas of the model: the syntax tree, or no tree for
\* a text that is not an expression
ParseFormula(src) ==
    CASE src = "amount" -> Ok(Var("amount"))
      [] src = "100" -> Ok(Lit(VInt(100)))
      [] src = "amount * 1.1" -> Ok(Bin("*", Var("amount"), Lit(VFloat(Rat(11, 10)))))
      [] src = "amount + amount * days_held" ->
            Ok(Bin("+", Var("amount"), Bin("*", Var("amount"), Var("days_held"))))
      [] src = "amount + simple_interest(amount, 12, days_held)" ->
            Ok(Bin("+", Var("amount"),
                   Call("simple_interest", <<Var("amount"), Lit(VInt(12)), Var("days_held")>>)))
      [] src = "if_else(days_held > 1, amount, 0)" ->
            Ok(Call("if_else", <<Bin(">", Var("days_held"), Lit(VInt(1))),
                                 Var("amount"), Lit(VInt(0))>>))
      [] src = "amount + (amount * parse_note_float(note, \"Int:\") / 100 / 365 * days_held)" ->
            Ok(Bin("+", Var("amount"),
                   Bin("*",
                       Bin("/",
                           Bin("/",
                               Bin("*", Var("amount"),
                                   Call("parse_note_float", <<Var("note"), Lit(VStr(S_Int))>>)),
                               Lit(VInt(100))),
                           Lit(VInt(365))),
                       Var("days_held"))))
      [] src = "amount +" -> Fail
      [] src = "invalid_function(amount)" -> Ok(Call("invalid_function", <<Var("amount")>>))
      [] src = "unknown_var * 2" -> Ok(Bin("*", Var("unknown_var"), Lit(VInt(2))))
      [] src = "simple_interest(amount, 12)" ->
            Ok(Call("simple_interest", <<Var("amount"), Lit(VInt(12))>>))
      [] src = "simple_interest(note, 12, days_held)" ->
            Ok(Call("simple_interest", <<Var("note"), Lit(VInt(12)), Var("days_held")>>))
      [] src = "\"string result\"" ->
            Ok(Lit(VStr(<<"s", "t", "r", "i", "n", "g", " ", "r", "e", "s", "u", "l", "t">>)))
      [] src = "parse_note_string(note, \"Per:\")" ->
            Ok(Call("parse_note_string", <<Var("note"), Lit(VStr(S_Per))>>))
      [] src = "amount > 0" -> Ok(Bin(">", Var("amount"), Lit(VInt(0))))
      [] src = "amount / 0" -> Ok(Bin("/", Var("amount"), Lit(VInt(0))))
      [] src = "(amount - amount) / 0" ->
            Ok(Bin("/", Bin("-", Var("amount"), Var("amount")), Lit(VInt(0))))
      [] src = "simple_interest([amount, note][1], 100, 365)" ->
            Ok(Call("simple_interest",
                    <<Idx(Arr(<<Var("amount"), Var("note")>>), Lit(VInt(1))),
                      Lit(VInt(100)), Lit(VInt(365))>>))
      [] src = "note_contains([note, amount][1], \"x\")" ->
            Ok(Call("note_contains",
                    <<Idx(Arr(<<Var("note"), Var("amount")>>), Lit(VInt(1))),
                      Lit(VStr(S_x))>>))
      [] src = "compound_interest(amount, 1200, 365, 12)" ->
            Ok(Call("compound_interest",
                    <<Var("amount"), Lit(VInt(1200)), Lit(VInt(365)), Lit(VInt(12))>>))
      [] src = "compound_interest(amount, 1200, 365, 0)" ->
            Ok(Call("compound_interest",
                    <<Var("amount"), Lit(VInt(1200)), Lit(VInt(365)), Lit(VInt(0))>>))
      [] src = "compound_interest(amount, 1200, 365)" ->
            Ok(Call("compound_interest",
                    <<Var("amount"), Lit(VInt(1200)), Lit(VInt(365))>>))

\* The variable schema: the fields of ValuationContext by their expr tags
EnvTypes ==
    [amount |-> "float64", quantity |-> "float64", date |-> "time.Time",
     days_held |-> "float64", months_held |-> "float64", years_held |-> "float64",
     note |-> "string", account |-> "string", commodity |-> "string"]

IsNumericType(t) == t \in {"float64", "int"}
ArithOps == {"+", "-", "*", "/"}
CompareOps == {">", "<", ">=", "<="}

\* The type of a binary operation, "error" for mismatched operands
BinType(op, l, r) ==
    IF l = "error" \/ r = "error" THEN "error"
    ELSE IF op \in ArithOps THEN
        (IF IsNumericType(l) /\ IsNumericType(r)
            THEN (IF op = "/" \/ l = "float64" \/ r = "float64" THEN "float64" ELSE "int")
         ELSE IF op = "+" /\ l = "string" /\ r = "string" THEN "string"
         ELSE IF (l = "any" /\ (IsNumericType(r) \/ r = "any")) \/ (r = "any" /\ IsNumericType(l))
            THEN (IF op = "/" THEN "float64" ELSE "any")
         ELSE "error")
    ELSE IF op \in CompareOps THEN
        (IF (IsNumericType(l) \/ l = "any") /\ (IsNumericType(r) \/ r = "any") THEN "bool"
         ELSE IF l = "string" /\ r = "string" THEN "bool"
         ELSE "error")
    ELSE "error"

\* An argument of type t may be passed for a parameter of type p: the same
\* type, an integer for a float, or a value whose type is known only at run
\* time
Assignable(t, p) == t = p \/ t = "any" \/ (p = "float64" /\ t = "int")

\* The type checker: the static type of a tree, "error" when it does not
\* type-check against the variable schema and the function registry
RECURSIVE TypeOf(_)
TypeOf(e) ==
    CASE e.k = "lit" -> e.x.t
      [] e.k = "var" -> IF e.x \in DOMAIN EnvTypes THEN EnvTypes[e.x] ELSE "error"
      [] e.k = "bin" -> BinType(e.x, TypeOf(e.a[1]), TypeOf(e.a[2]))
      [] e.k = "call" ->
            IF e.x \notin FuncNames THEN "error"
            ELSE IF Len(e.a) # Len(FuncSigs[e.x].params) THEN "error"
            ELSE IF \A i \in 1..Len(e.a) :
                        /\ TypeOf(e.a[i]) # "error"
                        /\ Assignable(TypeOf(e.a[i]), FuncSigs[e.x].params[i])
                 THEN FuncSigs[e.x].ret
            ELSE "error"
      [] e.k = "array" ->
            IF \A i \in 1..Len(e.a) : TypeOf(e.a[i]) # "error" THEN "[]interface {}" ELSE "error"
      [] e.k = "index" ->
            IF /\ TypeOf(e.a[1]) \in {"[]interface {}", "any"}
               /\ TypeOf(e.a[2]) \in {"int", "any"}
            THEN "any" ELSE "error"

\* A compiler that keeps its program in a package variable: while another
\* goroutine holds a compiled program, that program is handed out
Compile_Shared(formula) ==
    LET tree == ParseFormula(formula)
        holders == {q \in DOMAIN procs : procs[q].pc = "compiled"}
    IN  IF holders # {} THEN procs[CHOOSE q \in holders : TRUE].program
        ELSE IF ~tree.ok THEN Fail
        ELSE IF TypeOf(tree.v) = "error" THEN Fail
        ELSE tree

\* expr.Compile(formula, expr.Env(ctx), exprFunctions...): the program (the
\* checked tree), or an error for a text that does not parse or type-check
Compile(formula) ==
    LET tree == ParseFormula(formula)
    IN  IF ~tree.ok THEN Fail
        ELSE IF TypeOf(tree.v) = "error" THEN Fail
        ELSE tree

IsNumericValue(v) == v.t \in {"float64", "int"}

\* A binary operation at run time, on the dynamic types of its operands
BinValue(op, l, r) ==
    IF IsNumericValue(l) /\ IsNumericValue(r) THEN
        (LET num == CASE op = "+" -> RAdd(l.r, r.r)
                      [] op = "-" -> RSub(l.r, r.r)
                      [] op = "*" -> RMul(l.r, r.r)
                      [] op = "/" -> RDiv(l.r, r.r)
                      [] OTHER -> Num(0)
         IN  CASE op = ">" -> Ok(VBool(RLess(r.r, l.r)))
               [] op = "<" -> Ok(VBool(RLess(l.r, r.r)))
               [] op = ">=" -> Ok(VBool(RLeq(r.r, l.r)))
               [] op = "<=" -> Ok(VBool(RLeq(l.r, r.r)))
               [] op \in ArithOps ->
                    IF op # "/" /\ l.t = "int" /\ r.t = "int"
                    THEN Ok([t |-> "int", r |-> num, s |-> <<>>])
                    ELSE Ok(VFloat(num))
               [] OTHER -> Fail)
    ELSE IF l.t = "string" /\ r.t = "string" THEN
        (CASE op = "+" -> Ok(VStr(l.s \o r.s))
           [] op = "<" -> Ok(VBool(StrLess(l.s, r.s)))
           [] op = ">" -> Ok(VBool(StrLess(r.s, l.s)))
           [] op = "<=" -> Ok(VBool(~StrLess(r.s, l.s)))
           [] op = ">=" -> Ok(VBool(~StrLess(l.s, r.s)))
           [] OTHER -> Fail)
    ELSE Fail

\* expr.Run(program, ctx): the value of the tree in the context ctx, or an
\* error (a panic of an operation or of a function is recovered as one).
\* An integer literal passed for a float parameter was compiled to a float.
RECURSIVE Run(_, _)
Run(e, ctx) ==
    CASE e.k = "lit" -> Ok(e.x)
      [] e.k = "var" -> Ok(ctx[e.x])
      [] e.k = "bin" ->
            LET l == Run(e.a[1], ctx)
                r == Run(e.a[2], ctx)
            IN  IF l.ok /\ r.ok THEN BinValue(e.x, l.v, r.v) ELSE Fail
      [] e.k = "call" ->
            LET args == [i \in 1..Len(e.a) |-> Run(e.a[i], ctx)]
                params ==
                    [i \in 1..Len(e.a) |->
                        IF FuncSigs[e.x].params[i] = "float64" /\ e.a[i].k = "lit"
                           /\ args[i].v.t = "int"
                        THEN VFloat(args[i].v.r) ELSE args[i].v]
            IN  IF \A i \in 1..Len(e.a) : args[i].ok THEN exprFunctions(e.x, params) ELSE Fail
      [] e.k = "array" ->
            LET elems == [i \in 1..Len(e.a) |-> Run(e.a[i], ctx)]
            IN  IF \A i \in 1..Len(e.a) : elems[i].ok
                THEN Ok(VArr([i \in 1..Len(e.a) |-> elems[i].v])) ELSE Fail
      [] e.k = "index" ->
            LET base == Run(e.a[1], ctx)
                i == Run(e.a[2], ctx)
            IN  IF ~(base.ok /\ i.ok) THEN Fail
                ELSE IF base.v.t # "[]interface {}" \/ i.v.t # "int" THEN Fail
                ELSE LET n == Len(base.v.s)
                         at == IF i.v.r.n < 0 THEN i.v.r.n + n ELSE i.v.r.n
                     IN  IF at >= 0 /\ at < n THEN Ok(base.v.s[at + 1]) ELSE Fail

(***************************************************************************)
(* Valuation of a posting                                                  *)
(***************************************************************************)

HoursPerDay == 24

S_INR == <<"I", "N", "R">>
S_AssetsTest == <<"A", "s", "s", "e", "t", "s", ":", "T", "e", "s", "t">>
S_AssetsPreview == <<"A", "s", "s", "e", "t", "s", ":", "P", "r", "e", "v", "i", "e", "w">>
S_SampleNote ==
    <<"s", "a", "m", "p", "l", "e", " ", "n", "o", "t", "e", " ",
      "I", "n", "t", ":", "1", "2", " ", "P", "e", "r", ":", "M">>

\* A ValuationContext as the environment of a program
Context(amount, quantity, date, daysHeld, monthsHeld, yearsHeld, note, account, commodity) ==
    [amount |-> VFloat(amount), quantity |-> VFloat(quantity), date |-> VTime(date),
     days_held |-> VFloat(daysHeld), months_held |-> VFloat(monthsHeld),
     years_held |-> VFloat(yearsHeld), note |-> VStr(note), account |-> VStr(account),
     commodity |-> VStr(commodity)]

\* A context built from a package variable that every call in progress
\* writes its evaluation date to: the latest date written wins
buildValuationContext_Shared(p, evaluationDate) ==
    LET holders == {q \in DOMAIN procs : procs[q].pc = "compiled"}
        latest == CHOOSE q \in holders :
                      \A r \in holders : procs[r].req.days <= procs[q].req.days
        date == IF holders = {} THEN evaluationDate
                ELSE procs[latest].req.days * HoursPerDay
        daysHeld == Rat(date - p.Date, HoursPerDay)
    IN  Context(p.Amount, p.Quantity, p.Date, daysHeld,
                RDiv(daysHeld, Rat(3044, 100)), RDiv(daysHeld, Rat(36525, 100)),
                p.TransactionNote, p.Account, p.Commodity)

\* buildValuationContext creates a ValuationContext from a posting
buildValuationContext(p, evaluationDate) ==
    LET daysHeld == Rat(evaluationDate - p.Date, HoursPerDay)
    IN  Context(p.Amount, p.Quantity, p.Date, daysHeld,
                RDiv(daysHeld, Rat(3044, 100)), RDiv(daysHeld, Rat(36525, 100)),
                p.TransactionNote, p.Account, p.Commodity)

\* EvaluateValuation from the compiled program on: expr.Run on the posting's
\* context and the conversion of the result: (value, err), or a panic of
\* decimal.NewFromFloat, which refuses the non-finite floats
EvaluateCompiled(program, p, evaluationDate) ==
    LET Convert(result) ==
            IF ~result.ok THEN [value |-> p.Amount, err |-> TRUE, panic |-> FALSE]
            ELSE IF result.v.t = "float64" THEN
                (IF IsFinite(result.v.r)
                 THEN [value |-> result.v.r, err |-> FALSE, panic |-> FALSE]
                 ELSE [value |-> p.Amount, err |-> FALSE, panic |-> TRUE])
            ELSE IF result.v.t \in {"int", "int64"}
                THEN [value |-> result.v.r, err |-> FALSE, panic |-> FALSE]
            ELSE [value |-> p.Amount, err |-> FALSE, panic |-> FALSE]
    IN  IF ~program.ok THEN [value |-> p.Amount, err |-> TRUE, panic |-> FALSE]
        ELSE Convert(Run(program.v, buildValuationContext(p, evaluationDate)))

\* EvaluateValuation: the formula is compiled with the context's type and
\* the function registry, then run
EvaluateValuation(valuation, p, evaluationDate) ==
    EvaluateCompiled(Compile(valuation.Formula), p, evaluationDate)

\* The dummy context ValidateFormula runs a formula on
SampleContext ==
    Context(Num(10000), Num(1), 0, Num(30), Num(1), Rat(822, 10000),
            S_SampleNote, S_AssetsTest, S_INR)

\* ValidateFormula without the check of the result's type
ValidateFormula_NoTypeCheck(formula) ==
    LET Validate(program) ==
            IF ~program.ok THEN "syntax error"
            ELSE IF ~Run(program.v, SampleContext).ok THEN "evaluation error"
            ELSE ""
    IN  Validate(Compile(formula))

\* ValidateFormula from the compiled program on: "" for nil, or the kind of
\* error it returns
ValidateCompiled(program) ==
    LET ctx == SampleContext
        Check(result) ==
            IF ~result.ok THEN "evaluation error"
            ELSE IF result.v.t \in {"float64", "int", "int64", "int32"} THEN ""
            ELSE "formula must return a number"
    IN  IF ~program.ok THEN "syntax error" ELSE Check(Run(program.v, ctx))

\* ValidateFormula: the formula is compiled, then run on the dummy context
ValidateFormula(formula) == ValidateCompiled(Compile(formula))

\* PreviewFormula from the compiled program on: the preview's Result and Error
PreviewCompiled(program, amount, daysHeld, note) ==
    LET ctx == Context(amount, Num(1), 0, daysHeld, RDiv(daysHeld, Rat(3044, 100)),
                       RDiv(daysHeld, Rat(36525, 100)), note, S_AssetsPreview, S_INR)
        Convert(result) ==
            IF ~result.ok THEN [Result |-> Num(0), Error |-> "Evaluation error"]
            ELSE [Result |-> toFloat64(result.v), Error |-> ""]
    IN  IF ~program.ok THEN [Result |-> Num(0), Error |-> "Compile error"]
        ELSE Convert(Run(program.v, ctx))

\* PreviewFormula: the formula is compiled, then run on the sample data
PreviewFormula(formula, amount, daysHeld, note) ==
    PreviewCompiled(Compile(formula), amount, daysHeld, note)

\* FindCustomValuation: the index of the first rule whose account pattern
\* matches the posting's account and whose note_contains, if any, occurs in
\* its transaction note; 0 when there is none
FindCustomValuation(rules, p) ==
    LET matches(v) ==
            /\ matchAccountPattern(p.Account, v.Account)
            /\ ~(v.NoteContains # <<>> /\ ~Contains(p.TransactionNote, v.NoteContains))
    IN  IF \E i \in 1..Len(rules) : matches(rules[i])
        THEN CHOOSE i \in 1..Len(rules) :
                /\ matches(rules[i])
                /\ \A j \in 1..(i - 1) : ~matches(rules[j])
        ELSE 0

\* GetCustomMarketPrice: (price, applied), or the panic of the evaluation
GetCustomMarketPrice(rules, p, evaluationDate) ==
    LET Price(price) ==
            IF price.panic THEN [price |-> Num(0), applied |-> FALSE, panic |-> TRUE]
            ELSE IF price.err THEN [price |-> p.Amount, applied |-> TRUE, panic |-> FALSE]
            ELSE [price |-> price.value, applied |-> TRUE, panic |-> FALSE]
        Custom(i) ==
            IF i = 0 THEN [price |-> Num(0), applied |-> FALSE, panic |-> FALSE]
            ELSE Price(EvaluateValuation(rules[i], p, evaluationDate))
    IN  Custom(FindCustomValuation(rules, p))

\* GetMarketPrice: the custom price when a rule applies, else the posting's
\* amount (a posting in the default currency)
GetMarketPrice(rules, p, date) ==
    LET Market(custom) ==
            IF custom.panic THEN [price |-> Num(0), panic |-> TRUE]
            ELSE IF custom.applied THEN [price |-> custom.price, panic |-> FALSE]
            ELSE [price |-> p.Amount, panic |-> FALSE]
    IN  Market(GetCustomMarketPrice(rules, p, date))

(***************************************************************************)
(* Loans                                                                   *)
(***************************************************************************)

S_closed == <<"c", "l", "o", "s", "e", "d">>
S_settled == <<"s", "e", "t", "t", "l", "e", "d">>
S_Risk == <<"R", "i", "s", "k", ":">>
S_high == <<"h", "i", "g", "h">>
S_medium == <<"m", "e", "d", "i", "u", "m">>
S_low == <<"l", "o", "w">>
S_unknown == <<"u", "n", "k", "n", "o", "w", "n">>

\* A loan is Maturing when it matures within this many days
MaturingDays == 30

\* ParseDuration: the days of a token "Nd", "Nm" or "Nyr", 0 for any other
ParseDuration(token) ==
    LET n == Len(token)
        days(count, each) ==
            IF count # <<>> /\ AllDigits(count) THEN Num(DigitsVal(count) * each) ELSE Num(0)
    IN  IF n >= 2 /\ SubSeq(token, n - 1, n) = <<"y", "r">> THEN days(SubSeq(token, 1, n - 2), 365)
        ELSE IF n >= 1 /\ token[n] = "m" THEN days(SubSeq(token, 1, n - 1), 30)
        ELSE IF n >= 1 /\ token[n] = "d" THEN days(SubSeq(token, 1, n - 1), 1)
        ELSE Num(0)

\* ParseRiskLevel: the risk token of a note, "unknown" when there is none
ParseRiskLevel(note) ==
    LET token == ToLower(parseNoteString(note, S_Risk))
    IN  IF token \in {S_high, S_medium, S_low} THEN token ELSE S_unknown

\* isLoanClosed checks if any posting has "closed" or "settled" in the note
isLoanClosed(ps) ==
    \E i \in 1..Len(ps) :
        LET note == ps[i].TransactionNote \o <<" ">> \o ps[i].Note
        IN  \/ Contains(ToLower(note), S_closed)
            \/ Contains(ToLower(note), S_settled)

\* The sum of a sequence of decimals
RECURSIVE SumSeq(_)
SumSeq(xs) == IF xs = <<>> THEN Num(0) ELSE RAdd(Head(xs), SumSeq(Tail(xs)))

\* Every amount is added to the principal, repayments included
Principal_AllAmounts(ps) == SumSeq([i \in 1..Len(ps) |-> ps[i].Amount])

\* The principal buildLoan adds up: the amounts greater than zero
Principal(ps) ==
    SumSeq([i \in 1..Len(ps) |-> IF RLess(Num(0), ps[i].Amount) THEN ps[i].Amount ELSE Num(0)])

NoDate == [valid |-> FALSE, time |-> 0]
NoLoan == [nil |-> TRUE, panic |-> FALSE]
Panicked == [nil |-> FALSE, panic |-> TRUE]

\* A loan that matures within MaturingDays is Maturing, not yet Active
LoanStatus_StrictMaturing(closed, targetDays, toMaturity) ==
    IF closed THEN "closed"
    ELSE IF RLess(Num(0), targetDays) THEN
        (IF toMaturity < 0 THEN "overdue"
         ELSE IF toMaturity < MaturingDays THEN "maturing"
         ELSE "active")
    ELSE "active"

\* The status is taken from the days to maturity whatever the target is
LoanStatus_NoTargetCheck(closed, targetDays, toMaturity) ==
    IF closed THEN "closed"
    ELSE IF toMaturity < 0 THEN "overdue"
    ELSE IF toMaturity <= MaturingDays THEN "maturing"
    ELSE "active"

\* The status buildLoan determines (part_003): closed, or by the days to
\* maturity of a loan with a target, or active
LoanStatus(closed, targetDays, toMaturity) ==
    IF closed THEN "closed"
    ELSE IF RLess(Num(0), targetDays) THEN
        (IF toMaturity < 0 THEN "overdue"
         ELSE IF toMaturity <= MaturingDays THEN "maturing"
         ELSE "active")
    ELSE "active"

\* The status buildLoan of loan.go determines
LoanStatusAlt(targetDays, toMaturity) ==
    IF RLess(Num(0), targetDays) THEN
        (IF toMaturity < 0 THEN "overdue"
         ELSE IF toMaturity <= MaturingDays THEN "maturing"
         ELSE "active")
    ELSE "active"

\* buildLoan creates a Loan from the postings of an account (part_003).
\* ps is the postings after the sort by date; the result is a Loan, or the
\* panic of a valuation.
buildLoan(rules, account, ps, now) ==
    LET startDate == ps[1].Date
        firstPosting == ps[1]
        daysHeld == TruncDiv(now - startDate, HoursPerDay)
        Percent(pct) == IF RLess(Num(100), pct) THEN Num(100) ELSE pct
        Matured(closed, timed, targetDays, md) ==
            [MaturityDate |-> IF timed THEN [valid |-> TRUE, time |-> md] ELSE NoDate,
             DaysToMaturity |-> IF timed THEN TruncDiv(md - now, HoursPerDay) ELSE 0,
             Status |-> LoanStatus(closed, targetDays, TruncDiv(md - now, HoursPerDay)),
             PercentComplete |->
                 IF closed THEN Num(100)
                 ELSE IF timed THEN Percent(RMul(RDiv(Num(daysHeld), targetDays), Num(100)))
                 ELSE Num(0)]
        Maturity(closed, targetDays) ==
            Matured(closed, ~closed /\ RLess(Num(0), targetDays), targetDays,
                    startDate + RTrunc(RMul(targetDays, Num(HoursPerDay))))
        Loan(principal, currentValue, balanceIsZero, m) ==
            [nil |-> FALSE, panic |-> FALSE,
             Account |-> account,
             Principal |-> principal,
             CurrentValue |-> currentValue,
             GainAmount |-> IF m.Status = "closed" /\ balanceIsZero
                            THEN Num(0) ELSE RSub(currentValue, principal),
             InterestRate |-> parseNoteFloat(firstPosting.TransactionNote, S_Int),
             Period |-> parseNoteString(firstPosting.TransactionNote, S_Per),
             StartDate |-> startDate,
             MaturityDate |-> m.MaturityDate,
             DaysToMaturity |-> m.DaysToMaturity,
             DaysHeld |-> daysHeld,
             Status |-> m.Status,
             RiskLevel |-> ParseRiskLevel(firstPosting.TransactionNote),
             PercentComplete |-> m.PercentComplete]
        Balanced(isClosed, principal, currentValue, balanceIsZero) ==
            Loan(principal, currentValue, balanceIsZero,
                 Maturity(isClosed \/ balanceIsZero,
                          ParseDuration(parseNoteString(firstPosting.TransactionNote, S_Target))))
        Totals(isClosed, principal, currentValue) ==
            Balanced(isClosed, principal, currentValue, RLeq(currentValue, Num(0)))
        Valued(isClosed, prices) ==
            IF ~isClosed /\ \E i \in 1..Len(ps) : prices[i].panic THEN Panicked
            ELSE Totals(isClosed,
                        Principal(ps),
                        SumSeq([i \in 1..Len(ps) |->
                                   IF isClosed THEN ps[i].Amount ELSE prices[i].price]))
    IN  IF Len(ps) = 0 THEN NoLoan
        ELSE Valued(isLoanClosed(ps), [i \in 1..Len(ps) |-> GetMarketPrice(rules, ps[i], now)])

\* buildLoan of loan.go: no explicit close, and no loan (nil) for a balance
\* that is zero or negative
buildLoanAlt(rules, account, ps, now) ==
    LET startDate == ps[1].Date
        firstPosting == ps[1]
        daysHeld == TruncDiv(now - startDate, HoursPerDay)
        Percent(pct) == IF RLess(Num(100), pct) THEN Num(100) ELSE pct
        Matured(timed, targetDays, md) ==
            [MaturityDate |-> IF timed THEN [valid |-> TRUE, time |-> md] ELSE NoDate,
             DaysToMaturity |-> IF timed THEN TruncDiv(md - now, HoursPerDay) ELSE 0,
             Status |-> LoanStatusAlt(targetDays, TruncDiv(md - now, HoursPerDay)),
             PercentComplete |->
                 IF timed THEN Percent(RMul(RDiv(Num(daysHeld), targetDays), Num(100)))
                 ELSE Num(0)]
        Maturity(targetDays) ==
            Matured(RLess(Num(0), targetDays), targetDays,
                    startDate + RTrunc(RMul(targetDays, Num(HoursPerDay))))
        Loan(principal, currentValue, m) ==
            [nil |-> FALSE, panic |-> FALSE,
             Account |-> account,
             Principal |-> principal,
             CurrentValue |-> currentValue,
             GainAmount |-> RSub(currentValue, principal),
             InterestRate |-> parseNoteFloat(firstPosting.TransactionNote, S_Int),
             Period |-> parseNoteString(firstPosting.TransactionNote, S_Per),
             StartDate |-> startDate,
             MaturityDate |-> m.MaturityDate,
             DaysToMaturity |-> m.DaysToMaturity,
             DaysHeld |-> daysHeld,
             Status |-> m.Status,
             RiskLevel |-> ParseRiskLevel(firstPosting.TransactionNote),
             PercentComplete |-> m.PercentComplete]
        Totals(principal, currentValue) ==
            IF RLeq(currentValue, Num(0)) THEN NoLoan
            ELSE Loan(principal, currentValue,
                      Maturity(ParseDuration(parseNoteString(firstPosting.TransactionNote, S_Target))))
        Valued(prices) ==
            IF \E i \in 1..Len(ps) : prices[i].panic THEN Panicked
            ELSE Totals(Principal(ps),
                        SumSeq([i \in 1..Len(ps) |-> prices[i].price]))
    IN  IF Len(ps) = 0 THEN NoLoan
        ELSE Valued([i \in 1..Len(ps) |-> GetMarketPrice(rules, ps[i], now)])

\* SQL LIKE on the account column: % matches any run of characters
RECURSIVE LikeMatch(_, _)
LikeMatch(account, pattern) ==
    IF pattern = <<>> THEN account = <<>>
    ELSE IF pattern[1] = "%" THEN
        \E k \in 0..Len(account) : LikeMatch(SubSeq(account, k + 1, Len(account)), Tail(pattern))
    ELSE account # <<>> /\ account[1] = pattern[1] /\ LikeMatch(Tail(account), Tail(pattern))

\* The query GetLoans makes of an account pattern: a final * becomes %
LikePattern(accountPattern) ==
    IF accountPattern[Len(accountPattern)] = "*"
    THEN SubSeq(accountPattern, 1, Len(accountPattern) - 1) \o <<"%">>
    ELSE accountPattern

\* sort.Slice by date on a short slice: an insertion sort, which keeps the
\* postings of one date in the order they came in
RECURSIVE SortByDate(_)
SortByDate(ps) ==
    IF ps = <<>> THEN <<>>
    ELSE LET n == Len(ps)
             x == ps[n]
             sorted == SortByDate(SubSeq(ps, 1, n - 1))
             k == Cardinality({i \in 1..(n - 1) : sorted[i].Date <= x.Date})
         IN  SubSeq(sorted, 1, k) \o <<x>> \o SubSeq(sorted, k + 1, n - 1)

statusOrder(status) ==
    CASE status = "overdue" -> 0
      [] status = "maturing" -> 1
      [] status = "active" -> 2
      [] status = "closed" -> 3

\* The loans are ordered by account alone
LoanLess_ByAccount(a, b) == StrLess(a.Account, b.Account)

\* The order GetLoans sorts the loans in: by status, then by account
LoanLess(a, b) ==
    IF statusOrder(a.Status) # statusOrder(b.Status)
    THEN statusOrder(a.Status) < statusOrder(b.Status)
    ELSE StrLess(a.Account, b.Account)

RECURSIVE SortLoans(_)
SortLoans(ls) ==
    IF ls = <<>> THEN <<>>
    ELSE LET n == Len(ls)
             x == ls[n]
             sorted == SortLoans(SubSeq(ls, 1, n - 1))
             k == Cardinality({i \in 1..(n - 1) : ~LoanLess(x, sorted[i])})
         IN  SubSeq(sorted, 1, k) \o <<x>> \o SubSeq(sorted, k + 1, n - 1)

\* The accounts of a sequence of postings, in byte order
RECURSIVE SeqOfAccounts(_)
SeqOfAccounts(accounts) ==
    IF accounts = {} THEN <<>>
    ELSE LET least == CHOOSE a \in accounts : \A b \in accounts : ~StrLess(b, a)
         IN  <<least>> \o SeqOfAccounts(accounts \ {least})

RECURSIVE Flatten(_)
Flatten(seqs) == IF seqs = <<>> THEN <<>> ELSE Head(seqs) \o Flatten(Tail(seqs))

IsLoan(l) == ~l.nil /\ ~l.panic

\* The postings GetLoans (part_003) selects for a rule: the rows of the LIKE
\* query that match the rule's account pattern
Selected(v, rows) ==
    SelectSeq(rows, LAMBDA p :
        /\ LikeMatch(p.Account, LikePattern(v.Account))
        /\ matchAccountPattern(p.Account, v.Account))

\* The postings of one account among those selected, sorted by date as
\* buildLoan sorts them
AccountPostings(found, account) ==
    SortByDate(SelectSeq(found, LAMBDA p : p.Account = account))

\* GetLoans (part_003) on the rules, the postings in the order the database
\* returns them, and the evaluation instant: the sorted loans, or the panic
\* of a valuation
GetLoans(rules, rows, now) ==
    LET ofRule(v) ==
            LET found == Selected(v, rows)
                accounts == SeqOfAccounts({found[i].Account : i \in 1..Len(found)})
            IN  IF v.Account = <<>> THEN <<>>
                ELSE [k \in 1..Len(accounts) |->
                        buildLoan(rules, accounts[k], AccountPostings(found, accounts[k]), now)]
        Sorted(built) ==
            IF \E i \in 1..Len(built) : built[i].panic
            THEN [panic |-> TRUE, loans |-> <<>>]
            ELSE [panic |-> FALSE, loans |-> SortLoans(SelectSeq(built, IsLoan))]
    IN  Sorted(Flatten([k \in 1..Len(rules) |-> ofRule(rules[k])]))

\* The note filter of loan.go's GetLoans
NoteFilter(v, p) ==
    \/ v.NoteContains = <<>>
    \/ p.TransactionNote = v.NoteContains
    \/ p.Note = v.NoteContains
    \/ \E n \in {p.TransactionNote, p.Note} :
          /\ Len(n) > 0
          /\ Len(v.NoteContains) > 0
          /\ \/ n = v.NoteContains
             \/ (Len(n) >= Len(v.NoteContains) /\ HasPrefix(n, v.NoteContains))
             \/ Contains(n, v.NoteContains)

\* The postings GetLoans of loan.go selects for a rule
SelectedAlt(v, rows) ==
    SelectSeq(rows, LAMBDA p :
        /\ LikeMatch(p.Account, LikePattern(v.Account))
        /\ matchAccountPattern(p.Account, v.Account)
        /\ (v.NoteContains # <<>> => NoteFilter(v, p)))

\* GetLoans of loan.go: the postings of a rule with a note filter are those
\* whose notes contain it
GetLoansAlt(rules, rows, now) ==
    LET ofRule(v) ==
            LET found == SelectedAlt(v, rows)
                accounts == SeqOfAccounts({found[i].Account : i \in 1..Len(found)})
            IN  IF v.Account = <<>> THEN <<>>
                ELSE [k \in 1..Len(accounts) |->
                        buildLoanAlt(rules, accounts[k], AccountPostings(found, accounts[k]), now)]
        Sorted(built) ==
            IF \E i \in 1..Len(built) : built[i].panic
            THEN [panic |-> TRUE, loans |-> <<>>]
            ELSE [panic |-> FALSE, loans |-> SortLoans(SelectSeq(built, IsLoan))]
    IN  Sorted(Flatten([k \in 1..Len(rules) |-> ofRule(rules[k])]))

(***************************************************************************)
(* Aggregator (GetLoanSummary, GetLoanAlerts)                              *)
(***************************************************************************)

\* The zero value of StatusSummary and RiskSummary, which a map yields for a
\* key it does not hold
NoSummary == [Count |-> 0, Amount |-> Num(0)]

\* ss := m[key]; ss.Count++; ss.Amount = ss.Amount.Add(principal); m[key] = ss
Counted(m, key, principal) ==
    [k \in DOMAIN m \cup {key} |->
        IF k # key THEN m[k]
        ELSE IF key \in DOMAIN m
             THEN [Count |-> m[key].Count + 1, Amount |-> RAdd(m[key].Amount, principal)]
             ELSE [Count |-> NoSummary.Count + 1, Amount |-> RAdd(NoSummary.Amount, principal)]]

\* The loop of GetLoanSummary over the loans that remain
RECURSIVE Summed(_, _)
Summed(summary, loans) ==
    IF loans = <<>> THEN summary
    ELSE Summed([TotalLent |-> RAdd(summary.TotalLent, Head(loans).Principal),
                 TotalValue |-> RAdd(summary.TotalValue, Head(loans).CurrentValue),
                 TotalGain |-> RAdd(summary.TotalGain, Head(loans).GainAmount),
                 TotalAccounts |-> summary.TotalAccounts,
                 ByStatus |-> Counted(summary.ByStatus, Head(loans).Status, Head(loans).Principal),
                 ByRisk |-> Counted(summary.ByRisk, Head(loans).RiskLevel, Head(loans).Principal)],
                Tail(loans))

\* The summary starts with an entry of zero for each of the four statuses
GetLoanSummary_ZeroFilled(loans) ==
    Summed([TotalLent |-> Num(0), TotalValue |-> Num(0), TotalGain |-> Num(0),
            TotalAccounts |-> Len(loans),
            ByStatus |-> [status \in {"overdue", "maturing", "active", "closed"} |-> NoSummary],
            ByRisk |-> <<>>], loans)

\* GetLoanSummary returns aggregate statistics about the loans GetLoans
\* returned
GetLoanSummary(loans) ==
    Summed([TotalLent |-> Num(0), TotalValue |-> Num(0), TotalGain |-> Num(0),
            TotalAccounts |-> Len(loans), ByStatus |-> <<>>, ByRisk |-> <<>>], loans)

\* fmt.Sprintf("%d", n)
RECURSIVE Itoa(_)
Itoa(n) ==
    IF n < 0 THEN <<"-">> \o Itoa(-n)
    ELSE IF n < 10 THEN <<Digits[n + 1]>>
    ELSE Itoa(n \div 10) \o <<Digits[(n % 10) + 1]>>

S_LoanOverdueBy == <<"L", "o", "a", "n", " ", "o", "v", "e", "r", "d", "u", "e", " ", "b", "y", " ">>
S_LoanMaturesIn == <<"L", "o", "a", "n", " ", "m", "a", "t", "u", "r", "e", "s", " ", "i", "n", " ">>
S_Days == <<" ", "d", "a", "y", "s">>

\* formatAlertMessage formats an alert message: format is the text before
\* and the text after the %d
formatAlertMessage(format, days) == format[1] \o Itoa(days) \o format[2]

\* The alerts of one loan in the loop of GetLoanAlerts
AlertsOf(loan) ==
    IF loan.Status = "overdue" THEN
        <<[Type |-> "overdue", Severity |-> "high", Account |-> loan.Account,
           Message |-> formatAlertMessage(<<S_LoanOverdueBy, S_Days>>, -loan.DaysToMaturity),
           Amount |-> loan.Principal,
           DaysOverdue |-> -loan.DaysToMaturity, DaysToMaturity |-> 0]>>
    ELSE IF loan.Status = "maturing" THEN
        <<[Type |-> "maturing", Severity |-> "medium", Account |-> loan.Account,
           Message |-> formatAlertMessage(<<S_LoanMaturesIn, S_Days>>, loan.DaysToMaturity),
           Amount |-> loan.Principal,
           DaysOverdue |-> 0, DaysToMaturity |-> loan.DaysToMaturity]>>
    ELSE <<>>

severityOrder(severity) ==
    CASE severity = "high" -> 0
      [] severity = "medium" -> 1
      [] severity = "low" -> 2

\* The order GetLoanAlerts sorts the alerts in: by severity
AlertLess(a, b) == severityOrder(a.Severity) < severityOrder(b.Severity)

\* sort.Slice on the alerts: the insertion sort of a short slice, which
\* leaves alerts of equal severity in their order
RECURSIVE SortAlerts(_)
SortAlerts(as) ==
    IF as = <<>> THEN <<>>
    ELSE LET n == Len(as)
             x == as[n]
             sorted == SortAlerts(SubSeq(as, 1, n - 1))
             k == Cardinality({i \in 1..(n - 1) : ~AlertLess(x, sorted[i])})
         IN  SubSeq(sorted, 1, k) \o <<x>> \o SubSeq(sorted, k + 1, n - 1)

\* Only the overdue loans raise an alert
GetLoanAlerts_OverdueOnly(loans) ==
    SortAlerts(Flatten([i \in 1..Len(loans) |->
                           IF loans[i].Status = "overdue" THEN AlertsOf(loans[i]) ELSE <<>>]))

\* GetLoanAlerts returns actionable alerts for the loans GetLoans returned
GetLoanAlerts(loans) == SortAlerts(Flatten([i \in 1..Len(loans) |-> AlertsOf(loans[i])]))

\* utils.EndOfToday: the last hour of the current day
EndOfToday(day) == day * HoursPerDay + (HoursPerDay - 1)

(***************************************************************************)
(* The loan service: the ledger, the clock and the requests                *)
(***************************************************************************)

\* Bounds of the model
MaxPostings == 2
MaxDay == 2

S_Ax == <<"A", ":", "x">>
S_Ay == <<"A", ":", "y">>
S_AStar == <<"A", ":", "*">>
S_Target33d == S_Target \o <<"3", "3", "d">>
S_LoanCLOSED == <<"L", "o", "a", "n", " ", "C", "L", "O", "S", "E", "D">>

Rule(name, account, noteContains, formula) ==
    [Name |-> name, Account |-> account, NoteContains |-> noteContains, Formula |-> formula]

\* The configurations of the custom valuations: none; a rule for A:x before
\* a rule for every account under A:, with formulas that depend on time,
\* that fail to compile or to run, or that divide by zero; and a rule with a
\* note filter whose formula yields a string
Configs ==
    {<<>>,
     <<Rule("x", S_Ax, <<>>, "if_else(days_held > 1, amount, 0)"),
       Rule("all", S_AStar, <<>>, "amount + amount * days_held")>>,
     <<Rule("x", S_Ax, <<>>, "amount +"),
       Rule("all", S_AStar, <<>>, "note_contains([note, amount][1], \"x\")")>>,
     <<Rule("x", S_Ax, <<>>, "amount / 0"),
       Rule("all", S_AStar, <<>>, "amount")>>,
     <<Rule("target", S_AStar, S_Target, "\"string result\"")>>}

\* The days postings are dated, their accounts and their notes
PostingDays == {-32, 0}
PostingAccounts == {S_Ax, S_Ay}
NoNotes == [TransactionNote |-> <<>>, Note |-> <<>>]
PostingNotes == {NoNotes, [TransactionNote |-> S_Target33d, Note |-> <<>>]}
ClosedNotes == [TransactionNote |-> S_Target33d, Note |-> S_LoanCLOSED]

Posting(account, amount, day, notes) ==
    [Account |-> account, Amount |-> Num(amount), Quantity |-> Num(1),
     Date |-> day * HoursPerDay, Note |-> notes.Note,
     TransactionNote |-> notes.TransactionNote, Commodity |-> S_INR]

\* The postings entered: an amount lent on either day with or without a
\* target, an amount lent today and noted closed, or a repayment today
PostingChoices ==
    {Posting(account, 1, day, notes) :
        account \in PostingAccounts, day \in PostingDays, notes \in PostingNotes}
    \cup {Posting(account, 1, 0, ClosedNotes) : account \in PostingAccounts}
    \cup {Posting(account, -1, 0, NoNotes) : account \in PostingAccounts}

\* The orders in which the database may return a set of postings
RowOrders(ps) ==
    {rows \in [1..Cardinality(ps) -> ps] : \A i, j \in 1..Cardinality(ps) : i # j => rows[i] # rows[j]}

NoResponse == [op |-> "none"]
NoCall == [fn |-> "none"]

\* The goroutines that call the valuation engine concurrently, and one that
\* is not in a call
NumProcs == 2
Goroutines == 1 .. NumProcs
NoRequest == [op |-> "none", formula |-> <<>>, days |-> 0]
Idle == [pc |-> "idle", req |-> NoRequest, program |-> Fail, out |-> "", overlapped |-> FALSE]

Init ==
    /\ valuations \in Configs
    /\ postings = {}
    /\ today = 0
    /\ response = NoResponse
    /\ call = NoCall
    /\ procs = [i \in Goroutines |-> Idle]
    /\ evaluated = <<>>

\* A posting is entered in the ledger
AddPosting ==
    /\ response = NoResponse
    /\ Cardinality(postings) < MaxPostings
    /\ \E p \in PostingChoices : postings' = postings \cup {p}
    /\ UNCHANGED <<valuations, today, response, call, procs, evaluated>>

\* A day passes
Tick ==
    /\ response = NoResponse
    /\ today < MaxDay
    /\ today' = today + 1
    /\ UNCHANGED <<valuations, postings, response, call, procs, evaluated>>

\* A request for the loans is served by part_003's GetLoans
ServeLoans ==
    /\ response = NoResponse
    /\ \E rows \in RowOrders(postings) :
          LET now == EndOfToday(today)
              result == GetLoans(valuations, rows, now)
          IN  response' = [op |-> "GetLoans", rows |-> rows, now |-> now,
                           panic |-> result.panic, loans |-> result.loans]
    /\ UNCHANGED <<valuations, postings, today, call, procs, evaluated>>

\* A request for the loans is served by loan.go's GetLoans
ServeLoansAlt ==
    /\ response = NoResponse
    /\ \E rows \in RowOrders(postings) :
          LET now == EndOfToday(today)
              result == GetLoansAlt(valuations, rows, now)
          IN  response' = [op |-> "GetLoansAlt", rows |-> rows, now |-> now,
                           panic |-> result.panic, loans |-> result.loans]
    /\ UNCHANGED <<valuations, postings, today, call, procs, evaluated>>

\* The response is sent and discarded
Deliver ==
    /\ response # NoResponse
    /\ response' = NoResponse
    /\ UNCHANGED <<valuations, postings, today, call, procs, evaluated>>

Next == AddPosting \/ Tick \/ ServeLoans \/ ServeLoansAlt \/ Deliver

Spec == Init /\ [][Next]_vars

(***************************************************************************)
(* The valuation engine called on its own                                  *)
(***************************************************************************)

\* Bounds on the account names and the patterns matched against them
MaxAccountLen == 3
MaxPatternLen == 3

AccountChars == {"A", ":", "."}
PatternChars == AccountChars \cup {"*"}

\* The accounts and the patterns of TestMatchAccountPattern
S_AssetsP2P == <<"A", "s", "s", "e", "t", "s", ":", "p", "2", "p">>
S_AssetsP2PStar == <<"A", "s", "s", "e", "t", "s", ":", "p", "2", "p", ":", "*">>
TestAccounts ==
    {<<"A", "s", "s", "e", "t", "s", ":", "p", "2", "p", ":", "L", "e", "n", "d", "e", "r", "1">>,
     <<"A", "s", "s", "e", "t", "s", ":", "p", "2", "p", ":", "L", "e", "n", "d", "e", "r", "1", ":", "L", "o", "a", "n", "1">>,
     <<"A", "s", "s", "e", "t", "s", ":", "p", "2", "p">>,
     <<"A", "s", "s", "e", "t", "s", ":", "E", "q", "u", "i", "t", "y", ":", "S", "t", "o", "c", "k">>,
     <<"A", "s", "s", "e", "t", "s", ":", "p", "2", "p", ":", "L", "e", "n", "d", "e", "r", "2">>,
     <<"A", "s", "s", "e", "t", "s", ":", "C", "h", "e", "c", "k", "i", "n", "g">>}
TestPatterns ==
    {<<"A", "s", "s", "e", "t", "s", ":", "p", "2", "p", ":", "*">>,
     <<"A", "s", "s", "e", "t", "s", ":", "p", "2", "p", ":", "L", "e", "n", "d", "e", "r", "1">>,
     <<"A", "s", "s", "e", "t", "s", ":", "*">>}

\* The strings of at most n characters of chars
Strings(chars, n) == UNION {[1..k -> chars] : k \in 0..n}

\* The arguments the library functions are called with
LibValues == {VFloat(Num(0)), VFloat(Num(1)), VInt(4), VStr(S_x), VBool(TRUE)}
LibStrings == {VStr(S_SampleNote), VStr(S_Int), VFloat(Num(1))}
LibRates == {VFloat(Num(0)), VFloat(Num(1200)), VStr(S_x)}
LibDays == {VFloat(Num(0)), VFloat(Num(365)), VStr(S_x)}
LibCompounds == {VFloat(Num(0)), VFloat(Num(1)), VStr(S_x)}
LibClamp == {VFloat(Num(-1)), VFloat(Num(0)), VFloat(Rat(1, 2)), VFloat(Num(2)),
             VInt(1), VFloat(Rat(1, 0)), VFloat(Rat(-1, 0)), VFloat(Rat(0, 0))}

\* The choices of the i-th argument of fn: compound_interest is called with
\* whole years and rates that keep the power a whole power of a small base
ArgChoices(fn, i) ==
    IF fn = "compound_interest" THEN <<LibValues, LibRates, LibDays, LibCompounds>>[i]
    ELSE IF fn = "clamp" THEN LibClamp
    ELSE IF FuncSigs[fn].params[i] = "string" THEN LibStrings
    ELSE LibValues

ArgLists(fn) ==
    LET n == Len(FuncSigs[fn].params)
        all == LibValues \cup LibStrings \cup LibRates \cup LibDays \cup LibCompounds
                   \cup LibClamp
    IN  {params \in [1..n -> all] : \A i \in 1..n : params[i] \in ArgChoices(fn, i)}

\* The postings and the instants formulas are evaluated on
SamplePostings ==
    {[Account |-> S_AssetsTest, Amount |-> Num(amount), Quantity |-> Num(1), Date |-> 0,
      Note |-> <<>>, TransactionNote |-> S_SampleNote, Commodity |-> S_INR] :
        amount \in {10000, -5}}
SampleDays == {0, 30}

InitCalls ==
    /\ valuations = <<>>
    /\ postings = {}
    /\ today = 0
    /\ response = NoResponse
    /\ call = NoCall
    /\ procs = [i \in Goroutines |-> Idle]
    /\ evaluated = <<>>

CallValidateFormula ==
    /\ call = NoCall
    /\ \E formula \in FormulaSources :
          call' = [fn |-> "ValidateFormula", formula |-> formula, err |-> ValidateFormula(formula)]
    /\ UNCHANGED <<valuations, postings, today, response, procs, evaluated>>

CallPreviewFormula ==
    /\ call = NoCall
    /\ \E formula \in FormulaSources, amount \in {0, 10000}, daysHeld \in SampleDays,
          note \in {<<>>, S_SampleNote} :
            call' = [fn |-> "PreviewFormula", formula |-> formula, amount |-> amount,
                     daysHeld |-> daysHeld, note |-> note,
                     out |-> PreviewFormula(formula, Num(amount), Num(daysHeld), note)]
    /\ UNCHANGED <<valuations, postings, today, response, procs, evaluated>>

CallEvaluateValuation ==
    /\ call = NoCall
    /\ \E formula \in FormulaSources, p \in SamplePostings, day \in SampleDays :
          call' = [fn |-> "EvaluateValuation", formula |-> formula, p |-> p,
                   evaluationDate |-> day * HoursPerDay,
                   out |-> EvaluateValuation(Rule("rule", p.Account, <<>>, formula), p,
                                             day * HoursPerDay)]
    /\ UNCHANGED <<valuations, postings, today, response, procs, evaluated>>

CallFunction ==
    /\ call = NoCall
    /\ \E name \in FuncNames :
          \E params \in ArgLists(name) :
              call' = [fn |-> "exprFunctions", name |-> name, params |-> params,
                       out |-> exprFunctions(name, params)]
    /\ UNCHANGED <<valuations, postings, today, response, procs, evaluated>>

CallMatchAccountPattern ==
    /\ call = NoCall
    /\ \E account \in Strings(AccountChars, MaxAccountLen) \cup TestAccounts,
          pattern \in Strings(PatternChars, MaxPatternLen) \cup TestPatterns :
            call' = [fn |-> "matchAccountPattern", account |-> account, pattern |-> pattern,
                     candidate |-> /\ pattern # <<>>
                                   /\ LikeMatch(account, LikePattern(pattern)),
                     out |-> matchAccountPattern(account, pattern)]
    /\ UNCHANGED <<valuations, postings, today, response, procs, evaluated>>

\* The notes and the prefixes the note parsers are called with
MaxNoteLen == 4
NoteChars == {"x", "1", " ", "\t"}
NotePrefixes == {<<"x">>, <<"x", "x">>, <<"1">>}

CallParseNote ==
    /\ call = NoCall
    /\ \E note \in Strings(NoteChars, MaxNoteLen), prefix \in NotePrefixes :
          call' = [fn |-> "parseNote", note |-> note, prefix |-> prefix,
                   str |-> parseNoteString(note, prefix),
                   float |-> parseNoteFloat(note, prefix)]
    /\ UNCHANGED <<valuations, postings, today, response, procs, evaluated>>

\* The days the postings of a loan are dated, and the days it is derived on:
\* a posting may be dated after the day of the request
LoanDays == {0, 3}
LoanTodays == {0, 40}
\* The second posting of the day: none (0), a repayment or a second loan
SecondAmounts == {0, -1, 1}

CallBuildLoan ==
    /\ call = NoCall
    /\ \E day \in LoanDays, notes \in PostingNotes \cup {ClosedNotes},
          second \in SecondAmounts, day0 \in LoanTodays :
            LET ps == <<Posting(S_Ax, 1, day, notes)>>
                      \o (IF second # 0 THEN <<Posting(S_Ax, second, day, NoNotes)>>
                          ELSE <<>>)
            IN  call' = [fn |-> "buildLoan", ps |-> ps, now |-> EndOfToday(day0),
                         loan |-> buildLoan(valuations, S_Ax, ps, EndOfToday(day0)),
                         alt |-> buildLoanAlt(valuations, S_Ax, ps, EndOfToday(day0))]
    /\ UNCHANGED <<valuations, postings, today, response, procs, evaluated>>

\* The ledgers the aggregator is called on: at most MaxRows of the postings
\* of a loan overdue today, one maturing, one active and of high risk, and
\* one noted closed, on either account
MaxRows == 2
S_RiskHigh == S_Risk \o S_high
AggregatePostings ==
    {Posting(account, 1, day, [TransactionNote |-> S_Target33d, Note |-> <<>>]) :
        account \in PostingAccounts, day \in {-34, -33, -32}}
    \cup {Posting(account, 1, 0, notes) :
            account \in PostingAccounts,
            notes \in {[TransactionNote |-> S_RiskHigh, Note |-> <<>>], ClosedNotes}}
AggregateRows ==
    UNION {{rows \in [1..n -> AggregatePostings] :
               \A i, j \in 1..n : i # j => rows[i] # rows[j]} : n \in 0..MaxRows}

\* The loans either version of GetLoans returns today
LoansToday(rules, rows, alt) ==
    IF alt THEN GetLoansAlt(rules, rows, EndOfToday(0)) ELSE GetLoans(rules, rows, EndOfToday(0))

CallGetLoanSummary ==
    /\ call = NoCall
    /\ \E rules \in Configs, rows \in AggregateRows, alt \in BOOLEAN :
          LET Summary(got) ==
                  [fn |-> "GetLoanSummary", rules |-> rules, rows |-> rows, alt |-> alt,
                   panic |-> got.panic, loans |-> got.loans,
                   summary |-> GetLoanSummary(got.loans)]
          IN  call' = Summary(LoansToday(rules, rows, alt))
    /\ UNCHANGED <<valuations, postings, today, response, procs, evaluated>>

CallGetLoanAlerts ==
    /\ call = NoCall
    /\ \E rules \in Configs, rows \in AggregateRows, alt \in BOOLEAN :
          LET Alerts(got) ==
                  [fn |-> "GetLoanAlerts", rules |-> rules, rows |-> rows, alt |-> alt,
                   now |-> EndOfToday(0), panic |-> got.panic, loans |-> got.loans,
                   alerts |-> GetLoanAlerts(got.loans)]
          IN  call' = Alerts(LoansToday(rules, rows, alt))
    /\ UNCHANGED <<valuations, postings, today, response, procs, evaluated>>

\* The caller takes the result
Return ==
    /\ call # NoCall
    /\ call' = NoCall
    /\ UNCHANGED <<valuations, postings, today, response, procs, evaluated>>

NextCalls ==
    \/ CallValidateFormula
    \/ CallPreviewFormula
    \/ CallEvaluateValuation
    \/ CallFunction
    \/ CallMatchAccountPattern
    \/ CallParseNote
    \/ CallBuildLoan
    \/ CallGetLoanSummary
    \/ CallGetLoanAlerts
    \/ Return

SpecCalls == InitCalls /\ [][NextCalls]_vars

(***************************************************************************)
(* The valuation engine called from several goroutines: the compilation    *)
(* and the run of a formula are separate steps of a call, so that the      *)
(* calls of different goroutines interleave                                *)
(***************************************************************************)

MaxHistory == 3
EvalFormulas == {"amount + amount * days_held", "amount +"}
EvalPosting == CHOOSE p \in SamplePostings : p.Amount = Num(10000)
Requests ==
    {[op |-> op, formula |-> f, days |-> 30] :
        op \in {"EvaluateValuation", "ValidateFormula"}, f \in EvalFormulas}
    \cup {[op |-> op, formula |-> "amount + amount * days_held", days |-> d] :
        op \in {"EvaluateValuation", "PreviewFormula"}, d \in {0}}

\* What a call returns, from its compiled program on
RunCompiled(req, program) ==
    CASE req.op = "EvaluateValuation" ->
            EvaluateCompiled(program, EvalPosting, req.days * HoursPerDay)
      [] req.op = "ValidateFormula" -> ValidateCompiled(program)
      [] OTHER -> PreviewCompiled(program, EvalPosting.Amount, Num(req.days), S_SampleNote)

\* The latest results of EvaluateValuation, the oldest first
Remember(history, p) ==
    LET entry == [req |-> p.req, out |-> p.out]
    IN  IF p.req.op # "EvaluateValuation" THEN history
        ELSE IF Len(history) < MaxHistory THEN Append(history, entry)
        ELSE Append(Tail(history), entry)

\* A goroutine enters one of the three functions and compiles the formula:
\* options := append([]expr.Option{expr.Env(ctx)}, exprFunctions...) is a
\* slice of its own, and the program is a local of the call
CompileFormula(i) ==
    /\ procs[i].pc = "idle"
    /\ \E req \in Requests :
          procs' = [procs EXCEPT ![i] = [pc |-> "compiled", req |-> req,
                                         program |-> Compile(req.formula),
                                         out |-> "", overlapped |-> FALSE]]
    /\ UNCHANGED <<valuations, postings, today, response, call, evaluated>>

\* The goroutine runs its program on its context and converts the result
RunProgram(i) ==
    /\ procs[i].pc = "compiled"
    /\ procs' = [procs EXCEPT ![i] =
                    [pc |-> "returned", req |-> procs[i].req, program |-> Fail,
                     out |-> RunCompiled(procs[i].req, procs[i].program),
                     overlapped |-> \E q \in Goroutines \ {i} :
                                        procs[q].pc = "compiled"]]
    /\ UNCHANGED <<valuations, postings, today, response, call, evaluated>>

\* The caller takes the result
TakeResult(i) ==
    /\ procs[i].pc = "returned"
    /\ evaluated' = Remember(evaluated, procs[i])
    /\ procs' = [procs EXCEPT ![i] = Idle]
    /\ UNCHANGED <<valuations, postings, today, response, call>>

NextEval ==
    \E i \in Goroutines : CompileFormula(i) \/ RunProgram(i) \/ TakeResult(i)

SpecEval == InitCalls /\ [][NextEval]_vars

(***************************************************************************)
(* The dashboard request: GetLoansDashboard calls service.GetLoans,        *)
(* service.GetLoanSummary and service.GetLoanAlerts one after the other,   *)
(* each of which reads the postings and the clock for itself, while the    *)
(* ledger and the clock go on                                              *)
(***************************************************************************)

S_Amount == "amount"
DashboardRules == <<Rule("all", S_AStar, <<>>, S_Amount)>>
DashboardPostings ==
    {Posting(S_Ax, 1, -32, [TransactionNote |-> S_Target33d, Note |-> <<>>]),
     Posting(S_Ay, 1, 0, [TransactionNote |-> S_Target33d, Note |-> <<>>]),
     Posting(S_Ay, 1, 0, NoNotes)}

InitDashboard ==
    /\ valuations = DashboardRules
    /\ postings = {}
    /\ today = 0
    /\ response = NoResponse
    /\ call = NoCall
    /\ procs = [i \in Goroutines |-> Idle]
    /\ evaluated = <<>>

\* A posting is entered in the ledger, whether a request is being served
\* or not
EnterPosting ==
    /\ Cardinality(postings) < MaxPostings
    /\ \E p \in DashboardPostings : postings' = postings \cup {p}
    /\ UNCHANGED <<valuations, today, response, call, procs, evaluated>>

\* Midnight passes, whether a request is being served or not
PassMidnight ==
    /\ today < MaxDay
    /\ today' = today + 1
    /\ UNCHANGED <<valuations, postings, response, call, procs, evaluated>>

\* service.GetLoans(db) as the three calls of the handler make it: on the
\* postings and the day of the moment of the call
LoansNow(rows) == GetLoans(valuations, rows, EndOfToday(today)).loans

\* loans := service.GetLoans(db)
DashboardLoans ==
    /\ response = NoResponse
    /\ \E rows \in RowOrders(postings) :
          response' = [op |-> "GetLoansDashboard", pc |-> "loans",
                       loans |-> LoansNow(rows),
                       summary |-> GetLoanSummary(<<>>), alerts |-> <<>>]
    /\ UNCHANGED <<valuations, postings, today, call, procs, evaluated>>

\* summary := service.GetLoanSummary(db)
DashboardSummary ==
    /\ response.op = "GetLoansDashboard"
    /\ response.pc = "loans"
    /\ \E rows \in RowOrders(postings) :
          response' = [response EXCEPT !.pc = "summary",
                                       !.summary = GetLoanSummary(LoansNow(rows))]
    /\ UNCHANGED <<valuations, postings, today, call, procs, evaluated>>

\* alerts := service.GetLoanAlerts(db)
DashboardAlerts ==
    /\ response.op = "GetLoansDashboard"
    /\ response.pc = "summary"
    /\ \E rows \in RowOrders(postings) :
          response' = [response EXCEPT !.pc = "alerts",
                                       !.alerts = GetLoanAlerts(LoansNow(rows))]
    /\ UNCHANGED <<valuations, postings, today, call, procs, evaluated>>

\* return gin.H{"loans": loans, "summary": summary, "alerts": alerts}
DashboardReturn ==
    /\ response.op = "GetLoansDashboard"
    /\ response.pc = "alerts"
    /\ response' = NoResponse
    /\ UNCHANGED <<valuations, postings, today, call, procs, evaluated>>

NextDashboard ==
    \/ EnterPosting
    \/ PassMidnight
    \/ DashboardLoans
    \/ DashboardSummary
    \/ DashboardAlerts
    \/ DashboardReturn

SpecDashboard == InitDashboard /\ [][NextDashboard]_vars

(***************************************************************************)
(* The loan deriver's contract                                             *)
(***************************************************************************)

Served == response.op \in {"GetLoans", "GetLoansAlt"}

\* The posting sequences the deriver was given in serving the response: for
\* each rule and account, the account's selected postings sorted by date
Groups ==
    {AccountPostings(IF response.op = "GetLoans"
                     THEN Selected(valuations[k], response.rows)
                     ELSE SelectedAlt(valuations[k], response.rows), account) :
        k \in 1..Len(valuations), account \in PostingAccounts} \ {<<>>}

\* The loans of the response derived for the account of ps
LoansOf(ps) ==
    {response.loans[i] : i \in {j \in 1..Len(response.loans) :
                                   response.loans[j].Account = ps[1].Account}}

\* zeroBalance: the evaluated current value of ps is zero or less
ZeroBalance(ps, now) ==
    RLeq(SumSeq([i \in 1..Len(ps) |-> GetMarketPrice(valuations, ps[i], now).price]), Num(0))

\* C1: when a request for the loans returns, every account whose postings
\* carry an explicit close note, or whose evaluated current value is zero or
\* less, is reported with a loan that is Closed, complete to 100 per cent and
\* without a maturity date.
C1_ClosedLoanReported ==
    (Served /\ ~response.panic) =>
        \A ps \in Groups :
            (isLoanClosed(ps) \/ ZeroBalance(ps, response.now)) =>
                \E loan \in LoansOf(ps) :
                    /\ loan.Status = "closed"
                    /\ loan.PercentComplete = Num(100)
                    /\ ~loan.MaturityDate.valid

\* The loans of the response, as a set
Loans == {response.loans[i] : i \in 1..Len(response.loans)}

\* closed: explicitClose or zeroBalance
Closed(ps, now) == isLoanClosed(ps) \/ ZeroBalance(ps, now)

\* The target duration parsed from the first posting of ps, in days
TargetDays(ps) == ParseDuration(parseNoteString(ps[1].TransactionNote, S_Target))

\* days is hours in whole days, the fraction dropped (towards zero)
WholeDays(days, hours) ==
    IF hours >= 0
    THEN days * HoursPerDay <= hours /\ hours < (days + 1) * HoursPerDay
    ELSE (days - 1) * HoursPerDay < hours /\ hours <= days * HoursPerDay

\* C2: a loan that is not closed and has a target of more than zero days
\* matures at its start date plus the target, its days to maturity are the
\* whole days from now to the maturity date (negative once it has passed), and
\* its status is Overdue below zero days, Maturing up to 30 days, and Active
\* above; the loan is listed whenever the request returns.
C2_MaturityStatus ==
    Served =>
        \A ps \in Groups :
            (~Closed(ps, response.now) /\ RLess(Num(0), TargetDays(ps))) =>
                /\ ~response.panic => LoansOf(ps) # {}
                /\ \A loan \in LoansOf(ps) :
                    /\ loan.MaturityDate.valid
                    /\ Num(loan.MaturityDate.time - ps[1].Date) = RMul(TargetDays(ps), Num(HoursPerDay))
                    /\ WholeDays(loan.DaysToMaturity, loan.MaturityDate.time - response.now)
                    /\ loan.Status = (IF loan.DaysToMaturity < 0 THEN "overdue"
                                      ELSE IF loan.DaysToMaturity <= 30 THEN "maturing"
                                      ELSE "active")

\* A response lists a loan overdue by a day and a loan maturing in 30 days
C2_Witness ==
    /\ Served
    /\ \E l1, l2 \in Loans :
        /\ l1.Status = "overdue" /\ l1.DaysToMaturity = -1
        /\ l2.Status = "maturing" /\ l2.DaysToMaturity = 30

\* C3 as claimed: a loan whose first posting has no Target: token is listed,
\* whenever the request returns, Active and with daysToMaturity 0.
C3_NoTargetAlwaysActive ==
    Served =>
        \A ps \in Groups :
            ~Contains(ps[1].TransactionNote, S_Target) =>
                /\ ~response.panic => LoansOf(ps) # {}
                /\ \A loan \in LoansOf(ps) : loan.Status = "active" /\ loan.DaysToMaturity = 0

\* C3, amended: a loan that is not closed and whose first posting has no
\* Target: token is listed, whenever the request returns, Active, with
\* daysToMaturity 0 and without a maturity date, whatever its days held.
C3_NoTargetActive ==
    Served =>
        \A ps \in Groups :
            (~Closed(ps, response.now) /\ ~Contains(ps[1].TransactionNote, S_Target)) =>
                /\ ~response.panic => LoansOf(ps) # {}
                /\ \A loan \in LoansOf(ps) :
                    loan.Status = "active" /\ loan.DaysToMaturity = 0 /\ ~loan.MaturityDate.valid

\* A response lists an open loan without target that has been held 34 days
C3_Witness ==
    /\ Served
    /\ \E ps \in Groups :
        /\ ~Closed(ps, response.now)
        /\ ~Contains(ps[1].TransactionNote, S_Target)
        /\ \E loan \in LoansOf(ps) : loan.DaysHeld = 34 /\ loan.Status = "active"

\* The loan buildLoan derives for an account under rule k on a day
DerivedAt(rows, k, account, day) ==
    buildLoan(valuations, account,
              AccountPostings(Selected(valuations[k], rows), account), EndOfToday(day))

\* C4: Closed is terminal as time passes: while the postings stay the same,
\* a loan derived Closed at one instant is derived Closed at the next.
C4_ClosedIsTerminal ==
    [][postings' = postings =>
          \A rows \in RowOrders(postings) :
              \A k \in 1..Len(valuations), account \in PostingAccounts :
                  (/\ IsLoan(DerivedAt(rows, k, account, today))
                   /\ DerivedAt(rows, k, account, today).Status = "closed")
                  => (/\ IsLoan(DerivedAt(rows, k, account, today'))
                      /\ DerivedAt(rows, k, account, today').Status = "closed")]_vars

\* The formulas that fail: "amount +" does not compile, note_contains fails
\* on an argument that is not a string, and the division of "amount / 0"
\* produces a non-finite result
FailingFormulas ==
    {"amount +", "note_contains([note, amount][1], \"x\")", "amount / 0"}

\* C5: a posting whose rule's formula fails is valued at its raw amount
\* (GetCustomMarketPrice returns (posting.Amount, true)), and no failure of a
\* formula aborts the request for the loans.
C5_FormulaFailureContained ==
    Served =>
        /\ ~response.panic
        /\ \A p \in postings :
              (/\ FindCustomValuation(valuations, p) # 0
               /\ valuations[FindCustomValuation(valuations, p)].Formula \in FailingFormulas)
              => GetCustomMarketPrice(valuations, p, response.now)
                    = [price |-> p.Amount, applied |-> TRUE, panic |-> FALSE]

(***************************************************************************)
(* The valuation engine's contract                                         *)
(***************************************************************************)

NumericTypes == {"float64", "int", "int64", "int32"}

\* The formula compiles against the variables and the functions, runs on
\* the sample context, and its result is a number
Accepted(formula) ==
    /\ Compile(formula).ok
    /\ Run(Compile(formula).v, SampleContext).ok
    /\ Run(Compile(formula).v, SampleContext).v.t \in NumericTypes

RuntimeErrorFormulas ==
    {"invalid_function(amount)", "simple_interest(amount, 12)",
     "simple_interest(note, 12, days_held)", "amount / 0", "(amount - amount) / 0"}

\* C7: ValidateFormula rejects a formula that calls an undefined function,
\* passes a wrong argument count or type, or divides to a non-finite result
\* with a run-time (evaluation) error, a formula that does not compile with a
\* syntax error, and a formula with a non-numeric result with a type error;
\* a formula yielding a non-finite number is never accepted.
C7_ErrorKinds ==
    call.fn = "ValidateFormula" =>
        /\ call.formula \in RuntimeErrorFormulas => call.err = "evaluation error"
        /\ call.formula = "amount +" => call.err = "syntax error"
        /\ call.formula = "\"string result\"" => call.err = "formula must return a number"

\* C8: a formula whose result is not numeric (ValidateFormula rejects it for
\* its type) makes EvaluateValuation return an error and PreviewFormula
\* return a preview with an Error.
C8_NonNumericRejected ==
    /\ (call.fn = "EvaluateValuation"
        /\ ValidateFormula(call.formula) = "formula must return a number") => call.out.err
    /\ (call.fn = "PreviewFormula"
        /\ ValidateFormula(call.formula) = "formula must return a number") => call.out.Error # ""

\* The dynamic type of v is the declared type of a parameter
TypeMatches(v, declared) ==
    IF declared = "float64" THEN v.t \in {"float64", "float32", "int", "int64", "int32"}
    ELSE v.t = declared

\* C9: a library function called with an argument whose dynamic type is not
\* the declared type of its parameter raises an error; it never returns an
\* answer.
C9_ArgumentsValidated ==
    call.fn = "exprFunctions" =>
        ((\E i \in 1..Len(call.params) :
              ~TypeMatches(call.params[i], FuncSigs[call.name].params[i]))
         => ~call.out.ok)

\* C10: a pattern that is a literal L followed by * matches an account if
\* and only if the account begins with L; so Assets:p2p does not match
\* Assets:p2p:*, and Assets:p2p:Lender1 does.
C10_PrefixWildcard ==
    call.fn = "matchAccountPattern" =>
        /\ \A L \in {SubSeq(call.pattern, 1, Len(call.pattern) - 1)} :
              (/\ call.pattern = L \o <<"*">>
               /\ \A i \in 1..Len(L) : L[i] # "*")
              => (call.out <=> /\ Len(call.account) >= Len(L)
                               /\ SubSeq(call.account, 1, Len(L)) = L)
        /\ (call.account = S_AssetsP2P /\ call.pattern = S_AssetsP2PStar) => ~call.out

\* The account A: has been matched by A:*, after which nothing follows
C10_Witness ==
    /\ call.fn = "matchAccountPattern"
    /\ call.pattern = <<"A", ":", "*">>
    /\ call.account = <<"A", ":">>
    /\ call.out

\* C11: a pattern without the wildcard marker matches an account if and only
\* if the account equals the pattern character for character: the
\* metacharacter . of the pattern stands for itself, and the match covers the
\* whole account.
C11_ExactMatch ==
    (/\ call.fn = "matchAccountPattern"
     /\ \A i \in 1..Len(call.pattern) : call.pattern[i] # "*")
    => (call.out <=> call.account = call.pattern)

\* The pattern A.A has been matched against A:A, which it does not match
C11_Witness ==
    /\ call.fn = "matchAccountPattern"
    /\ call.pattern = <<"A", ".", "A">>
    /\ call.account = <<"A", ":", "A">>
    /\ ~call.out

\* White space: the space, the tab (and the newline, which the notes of the
\* model do not hold)
IsSpace(c) == c \in {" ", "\t"}

\* The text of s up to its first white space character, or all of s
FirstToken(s) ==
    IF \E i \in 1..Len(s) : IsSpace(s[i])
    THEN SubSeq(s, 1, (CHOOSE i \in 1..Len(s) :
                          IsSpace(s[i]) /\ \A j \in 1..(i - 1) : ~IsSpace(s[j])) - 1)
    ELSE s

\* The token that follows the first occurrence of prefix in note
TokenAfter(note, prefix) ==
    FirstToken(SubSeq(note, Index(note, prefix) + Len(prefix), Len(note)))

\* C12: for a note without the prefix parse_note_string returns the empty
\* string and parse_note_float 0; otherwise parse_note_string returns the
\* text after the first occurrence of the prefix up to the next white space
\* character or the end of the note, and parse_note_float that token as a
\* number, or 0 if it does not parse.
C12_NoteToken ==
    call.fn = "parseNote" =>
        IF ~Contains(call.note, call.prefix)
        THEN call.str = <<>> /\ call.float = Num(0)
        ELSE /\ call.str = TokenAfter(call.note, call.prefix)
             /\ call.float = (IF ParseFloat(TokenAfter(call.note, call.prefix)).ok
                              THEN ParseFloat(TokenAfter(call.note, call.prefix)).v
                              ELSE Num(0))

\* The word occurs in the text at some position, letter case aside
OccursFolded(text, word) ==
    \E k \in 1..Len(text) :
        /\ k + Len(word) - 1 <= Len(text)
        /\ \A j \in 1..Len(word) : LowerChar(text[k + j - 1]) = word[j]

\* explicitClose: some posting carries closed or settled, in any letter
\* case, in its transaction note or in its posting note
ExplicitClose(ps) ==
    \E i \in 1..Len(ps), word \in {S_closed, S_settled} :
        OccursFolded(ps[i].TransactionNote, word) \/ OccursFolded(ps[i].Note, word)

\* C13: the close signal of the deriver holds exactly for the accounts with
\* a posting that carries closed or settled, in any letter case, in either
\* note, and it is applied to every account when the loans are built: every
\* loan listed for such an account is Closed.
C13_ExplicitCloseApplied ==
    Served =>
        \A ps \in Groups :
            /\ isLoanClosed(ps) <=> ExplicitClose(ps)
            /\ ExplicitClose(ps) => \A loan \in LoansOf(ps) : loan.Status = "closed"

\* The amounts above zero among the postings ps
PositiveAmounts(ps) ==
    LET lent == SelectSeq(ps, LAMBDA p : RLess(Num(0), p.Amount))
    IN  [i \in 1..Len(lent) |-> lent[i].Amount]

RawBalance(ps) == SumSeq([i \in 1..Len(ps) |-> ps[i].Amount])

\* The evaluated value of ps at now: the sum of the postings' valuations
EvaluatedValue(ps, now) ==
    SumSeq([i \in 1..Len(ps) |-> GetMarketPrice(valuations, ps[i], now).price])

\* C15: the current value of every loan listed as Closed, whether closed by
\* a note or by an evaluated balance of zero or less, is the raw sum of its
\* posting amounts; the current value of every other loan is the sum of its
\* postings' evaluated valuations.
C15_CurrentValue ==
    Served =>
        \A ps \in Groups :
            \A loan \in LoansOf(ps) :
                loan.CurrentValue = (IF loan.Status = "closed" THEN RawBalance(ps)
                                     ELSE EvaluatedValue(ps, response.now))

\* C16: the gain of every loan listed is its current value less its
\* principal, except that it is 0 for a Closed loan whose raw balance is
\* exactly zero; a Closed loan with any other balance, a negative one
\* included, keeps the difference.
C16_GainAmount ==
    Served =>
        \A ps \in Groups :
            \A loan \in LoansOf(ps) :
                loan.GainAmount = (IF loan.Status = "closed" /\ RawBalance(ps) = Num(0)
                                   THEN Num(0)
                                   ELSE RSub(loan.CurrentValue, loan.Principal))

\* C17: the percentage complete of every loan derived lies between 0 and
\* 100, whatever the postings and the instant, an instant before the first
\* posting's date included.
C17_PercentComplete ==
    call.fn = "buildLoan" =>
        \A loan \in {call.loan, call.alt} :
            IsLoan(loan) =>
                /\ RLeq(Num(0), loan.PercentComplete)
                /\ RLeq(loan.PercentComplete, Num(100))

\* The rank of a status for display: Overdue, Maturing, Active, Closed
StatusRank(status) ==
    CHOOSE r \in 1..4 : <<"overdue", "maturing", "active", "closed">>[r] = status

\* a comes no later than b: by rank, and by account name within a rank
InDisplayOrder(a, b) ==
    \/ StatusRank(a.Status) < StatusRank(b.Status)
    \/ /\ StatusRank(a.Status) = StatusRank(b.Status)
       /\ (a.Account = b.Account \/ StrLess(a.Account, b.Account))

\* C18: the list a request for the loans returns is ordered by status rank
\* Overdue < Maturing < Active < Closed and, within a rank, by account name
\* ascending: every two adjacent loans are in that order.
C18_DisplayOrder ==
    Served =>
        \A i \in 1..(Len(response.loans) - 1) :
            InDisplayOrder(response.loans[i], response.loans[i + 1])

\* A list in which the loan of A:y comes before the loan of A:x, by its rank
C18_Witness ==
    /\ Served
    /\ \E i \in 1..(Len(response.loans) - 1) :
        /\ response.loans[i].Account = S_Ay
        /\ response.loans[i + 1].Account = S_Ax
        /\ StatusRank(response.loans[i].Status) < StatusRank(response.loans[i + 1].Status)

\* The sum of the field of the loans
Total(loans, field) == SumSeq([i \in 1..Len(loans) |-> loans[i][field]])

\* The sums of the counts and of the amounts of the entries of a grouping
RECURSIVE CountSum(_, _)
CountSum(m, keys) ==
    IF keys = {} THEN 0
    ELSE LET k == CHOOSE key \in keys : TRUE
         IN  m[k].Count + CountSum(m, keys \ {k})

RECURSIVE AmountSum(_, _)
AmountSum(m, keys) ==
    IF keys = {} THEN Num(0)
    ELSE LET k == CHOOSE key \in keys : TRUE
         IN  RAdd(m[k].Amount, AmountSum(m, keys \ {k}))

\* The grouping m of the summary adds up to the summary's totals
AddsUp(m, summary) ==
    /\ CountSum(m, DOMAIN m) = summary.TotalAccounts
    /\ AmountSum(m, DOMAIN m) = summary.TotalLent

\* C19: the summary of a list of loans holds the sums of principal, current
\* value and gain over the loans and the number of the loans; ByStatus and
\* ByRisk hold exactly the statuses and the risk levels seen among the loans,
\* and the counts and the amounts of each add up to TotalAccounts and
\* TotalLent.
C19_Summary ==
    (call.fn = "GetLoanSummary" /\ ~call.panic) =>
        /\ call.summary.TotalLent = Total(call.loans, "Principal")
        /\ call.summary.TotalValue = Total(call.loans, "CurrentValue")
        /\ call.summary.TotalGain = Total(call.loans, "GainAmount")
        /\ call.summary.TotalAccounts = Len(call.loans)
        /\ DOMAIN call.summary.ByStatus = {call.loans[i].Status : i \in 1..Len(call.loans)}
        /\ DOMAIN call.summary.ByRisk = {call.loans[i].RiskLevel : i \in 1..Len(call.loans)}
        /\ AddsUp(call.summary.ByStatus, call.summary)
        /\ AddsUp(call.summary.ByRisk, call.summary)

\* The summary of three loans of two statuses and two risk levels
C19_Witness ==
    /\ call.fn = "GetLoanSummary"
    /\ ~call.panic
    /\ call.summary.TotalAccounts = 3
    /\ Cardinality(DOMAIN call.summary.ByStatus) = 2
    /\ DOMAIN call.summary.ByRisk = {S_high, S_unknown}

\* The loans of a status among the loans, in their order
WithStatus(loans, status) == SelectSeq(loans, LAMBDA loan : loan.Status = status)

\* C20: the alerts of a list of loans are one alert of severity high for
\* each Overdue loan, with days overdue = -daysToMaturity, followed by one
\* alert of severity medium for each Maturing loan, with its days to
\* maturity, each group in the order of the loans; Active and Closed loans
\* raise no alert.
C20_Alerts ==
    (call.fn = "GetLoanAlerts" /\ ~call.panic) =>
        /\ Len(call.alerts) = Len(WithStatus(call.loans, "overdue"))
                              + Len(WithStatus(call.loans, "maturing"))
        /\ \A k \in 1..Len(WithStatus(call.loans, "overdue")) :
              /\ call.alerts[k].Severity = "high"
              /\ call.alerts[k].Account = WithStatus(call.loans, "overdue")[k].Account
              /\ call.alerts[k].DaysOverdue = -WithStatus(call.loans, "overdue")[k].DaysToMaturity
        /\ \A k \in 1..Len(WithStatus(call.loans, "maturing")) :
              /\ call.alerts[Len(WithStatus(call.loans, "overdue")) + k].Severity = "medium"
              /\ call.alerts[Len(WithStatus(call.loans, "overdue")) + k].Account
                    = WithStatus(call.loans, "maturing")[k].Account
              /\ call.alerts[Len(WithStatus(call.loans, "overdue")) + k].DaysToMaturity
                    = WithStatus(call.loans, "maturing")[k].DaysToMaturity

\* Two overdue loans and a maturing loan have raised two high alerts, which
\* read "Loan overdue by 1 days", and then a medium alert
C20_Witness ==
    /\ call.fn = "GetLoanAlerts"
    /\ ~call.panic
    /\ Len(call.loans) = 3
    /\ Len(call.alerts) = 3
    /\ call.alerts[1].Severity = "high"
    /\ call.alerts[1].Message = <<"L", "o", "a", "n", " ", "o", "v", "e", "r", "d", "u", "e", " ", "b", "y", " ", "1", " ", "d", "a", "y", "s">>
    /\ call.alerts[2].Severity = "high"
    /\ call.alerts[3].Severity = "medium"
    /\ call.alerts[3].DaysToMaturity = 0

\* The result a call returns when no other call is in progress
Alone(req) ==
    CASE req.op = "EvaluateValuation" ->
            EvaluateValuation(Rule("rule", EvalPosting.Account, <<>>, req.formula),
                              EvalPosting, req.days * HoursPerDay)
      [] req.op = "ValidateFormula" -> ValidateFormula(req.formula)
      [] OTHER -> PreviewFormula(req.formula, EvalPosting.Amount, Num(req.days),
                                 S_SampleNote)

ValueOf(formula) ==
    EvaluateValuation(Rule("rule", call.p.Account, <<>>, formula), call.p,
                      call.evaluationDate)

\* C23: compound_interest with a fourth argument of 0, and with the fourth
\* argument omitted, evaluates successfully to the value of the same call
\* compounding 12 times a year
C23_DefaultCompounding ==
    (/\ call # NoCall
     /\ call.fn = "EvaluateValuation"
     /\ call.formula \in {"compound_interest(amount, 1200, 365, 0)",
                           "compound_interest(amount, 1200, 365)"})
    => /\ ~call.out.err
       /\ ~call.out.panic
       /\ call.out.value = ValueOf("compound_interest(amount, 1200, 365, 12)").value

\* The three arguments of a call of clamp, and its result
Clamped == call # NoCall /\ call.fn = "exprFunctions" /\ call.name = "clamp"
ClampV == toFloat64(call.params[1])
ClampLo == toFloat64(call.params[2])
ClampHi == toFloat64(call.params[3])
ClampOut == call.out.v.r

\* The consequences C24 draws for a call with lo <= hi: the result lies in
\* [lo, hi], is v inside the range, lo below it and hi above it
ClampInRange ==
    /\ RLeq(ClampLo, ClampOut) /\ RLeq(ClampOut, ClampHi)
    /\ (RLeq(ClampLo, ClampV) /\ RLeq(ClampV, ClampHi)) => ClampOut = ClampV
    /\ RLess(ClampV, ClampLo) => ClampOut = ClampLo
    /\ RLess(ClampHi, ClampV) => ClampOut = ClampHi

\* clamp applied to its own result gives the result again
ClampIdempotent ==
    exprFunctions("clamp", <<VFloat(ClampOut), call.params[2], call.params[3]>>)
        = call.out

\* C24 as stated: for all v, lo and hi with lo <= hi the result of clamp
\* lies in [lo, hi] and is v, lo or hi as v lies inside, below or above the
\* range, and clamp is idempotent
C24_ClampAsStated ==
    Clamped => /\ call.out.ok
               /\ RLeq(ClampLo, ClampHi) => ClampInRange
               /\ ClampIdempotent

\* C24, amended: the consequences hold for every v that is a number; for a
\* NaN v (and lo <= hi, lo below +Inf, hi above -Inf) the result is NaN,
\* which lies in no range; clamp is idempotent whenever lo and hi are numbers
C24_Clamp ==
    Clamped => /\ call.out.ok
               /\ (RLeq(ClampLo, ClampHi) /\ ~IsNaN(ClampV)) => ClampInRange
               /\ (RLeq(ClampLo, ClampHi) /\ IsNaN(ClampV) /\ ClampLo # PosInf
                   /\ ClampHi # NegInf) => IsNaN(ClampOut)
               /\ (~IsNaN(ClampLo) /\ ~IsNaN(ClampHi)) => ClampIdempotent

\* clamp(2, 0, 1/2) returned 1/2
C24_Witness ==
    /\ Clamped
    /\ ClampV = Num(2) /\ ClampLo = Num(0) /\ ClampHi = Rat(1, 2)
    /\ ClampOut = Rat(1, 2)

\* C25: the storage prefilter returns a superset of the authoritative
\* matches: a posting whose account matches a rule's pattern under
\* matchAccountPattern is among the candidates of the Like query GetLoans
\* builds from the pattern
C25_PrefilterSuperset ==
    (/\ call # NoCall
     /\ call.fn = "matchAccountPattern"
     /\ call.pattern # <<>>
     /\ call.out)
    => call.candidate

\* The postings of a sequence in every order
Orderings(ps) ==
    {[i \in 1..Len(ps) |-> ps[f[i]]] :
        f \in {g \in [1..Len(ps) -> 1..Len(ps)] :
                  \A i, j \in 1..Len(ps) : i # j => g[i] # g[j]}}

\* The fields of a derived loan that C26 names
Derived(loan) ==
    IF ~IsLoan(loan) THEN <<loan.nil, loan.panic>>
    ELSE <<loan.Status, loan.InterestRate, loan.Period, loan.MaturityDate,
           loan.DaysToMaturity, loan.RiskLevel, loan.Principal, loan.CurrentValue>>

\* C26: buildLoan returns the same status, interest rate, period, maturity,
\* risk level, principal and current value for every order in which the same
\* postings of an account are handed to it, postings of one date with
\* different transaction notes included
C26_OrderIndependent ==
    (call # NoCall /\ call.fn = "buildLoan") =>
        \A ps \in Orderings(call.ps) :
            /\ Derived(buildLoan(valuations, S_Ax, SortByDate(ps), call.now))
                   = Derived(call.loan)
            /\ Derived(buildLoanAlt(valuations, S_Ax, SortByDate(ps), call.now))
                   = Derived(call.alt)

\* C27: GetLoans returns at most one loan per account, whatever the rules
\* (two rules whose patterns match one account included): no two loans of a
\* response have the same Account
C27_OneLoanPerAccount ==
    Served =>
        \A i, j \in 1..Len(response.loans) :
            i # j => response.loans[i].Account # response.loans[j].Account

\* The moves of the status C28 allows from one instant to a later one: none,
\* forward along Active, Maturing, Overdue, or to Closed
Forward(before, after) ==
    \/ after = before
    \/ after = "closed"
    \/ before = "active" /\ after \in {"maturing", "overdue"}
    \/ before = "maturing" /\ after = "overdue"

\* The loan derived earlier and the one derived later from the postings ps
\* agree with C28
Advances(ps, earlier, later) ==
    (/\ IsLoan(earlier) /\ IsLoan(later)
     /\ RLess(Num(0), TargetDays(ps)))
    => /\ later.DaysToMaturity <= earlier.DaysToMaturity
       /\ Forward(earlier.Status, later.Status)

\* C28: for fixed postings with a target duration above zero, as now
\* advances daysToMaturity never grows and the status only moves forward
\* along Active, Maturing, Overdue, or to Closed
C28_StatusAdvances ==
    [][postings' = postings =>
          \A rows \in RowOrders(postings) :
              \A k \in 1..Len(valuations), account \in PostingAccounts :
                  Advances(AccountPostings(Selected(valuations[k], rows), account),
                           DerivedAt(rows, k, account, today),
                           DerivedAt(rows, k, account, today'))]_vars

\* C29: the response of GetLoansDashboard is consistent with itself: its
\* summary and its alerts are those of the loan list it returns as loans
\* (TotalAccounts is the number of loans, and there is one alert for each
\* Overdue or Maturing loan of the list), also when postings or the day
\* change while the request is served
C29_DashboardConsistent ==
    (response.op = "GetLoansDashboard" /\ response.pc = "alerts")
    => /\ response.summary.TotalAccounts = Len(response.loans)
       /\ response.summary = GetLoanSummary(response.loans)
       /\ response.alerts = GetLoanAlerts(response.loans)

\* The hours by which the call's instant is past the maturity date of loan
HoursPast(loan) == call.now - loan.MaturityDate.time

\* The loans of the call that are not Closed and have a maturity date
Timed == {i \in 1..Len(call.loans) :
             /\ call.loans[i].Status # "closed"
             /\ call.loans[i].MaturityDate.valid}

\* days is the whole number of days in hours, a fraction of a day dropped
\* on either side of zero
TowardZero(hours, days) ==
    IF hours >= 0
    THEN days >= 0 /\ days * HoursPerDay <= hours /\ hours < (days + 1) * HoursPerDay
    ELSE days <= 0 /\ (days - 1) * HoursPerDay < hours /\ hours <= days * HoursPerDay

S_LoanMaturesIn0Days == S_LoanMaturesIn \o <<"0">> \o S_Days

\* C30: daysToMaturity is the hours from now to the maturity date divided
\* by 24 and truncated toward zero, so a loan that is not closed is Overdue
\* only from 24 hours past its maturity date on; less than 24 hours past it
\* the loan is Maturing with 0 days to maturity and raises the medium alert
\* "Loan matures in 0 days", and every Overdue alert reports at least 1 day
C30_OverdueAfterOneDay ==
    (call # NoCall /\ call.fn = "GetLoanAlerts" /\ ~call.panic) =>
        /\ \A i \in Timed :
              /\ TowardZero(-HoursPast(call.loans[i]), call.loans[i].DaysToMaturity)
              /\ call.loans[i].Status = "overdue"
                    <=> HoursPast(call.loans[i]) >= HoursPerDay
              /\ (0 < HoursPast(call.loans[i]) /\ HoursPast(call.loans[i]) < HoursPerDay)
                    => /\ call.loans[i].Status = "maturing"
                       /\ call.loans[i].DaysToMaturity = 0
                       /\ \E k \in 1..Len(call.alerts) :
                              /\ call.alerts[k].Account = call.loans[i].Account
                              /\ call.alerts[k].Severity = "medium"
                              /\ call.alerts[k].Message = S_LoanMaturesIn0Days
        /\ \A k \in 1..Len(call.alerts) :
              call.alerts[k].Type = "overdue" =>
                  /\ call.alerts[k].Severity = "high"
                  /\ call.alerts[k].DaysOverdue >= 1

\* A loan 23 hours past its maturity date raised the alert "Loan matures in
\* 0 days", and a loan 47 hours past it an Overdue alert of 1 day
C30_Witness ==
    /\ call # NoCall /\ call.fn = "GetLoanAlerts" /\ ~call.panic
    /\ Len(call.loans) = 2 /\ Len(call.alerts) = 2
    /\ call.loans[1].Status = "overdue" /\ HoursPast(call.loans[1]) = 47
    /\ call.loans[2].Status = "maturing" /\ HoursPast(call.loans[2]) = 23
    /\ call.alerts[1].DaysOverdue = 1
    /\ call.alerts[2].Message = S_LoanMaturesIn0Days

====
